---- MODULE Spec2Model ----
(***************************************************************************)
(* A model of sqla_autoloads: the schema-graph singleton (node.py), the    *)
(* path resolver and the SelectBuilder (core.py), together with the SQL    *)
(* and ORM semantics of the queries the builder emits.                     *)
(***************************************************************************)
EXTENDS Integers, Sequences, FiniteSets, TLC

VARIABLES
    \* ---- node.py: the Node singleton
    instance,     \* Node.__instance: FALSE = None, TRUE = an instance exists
    inst_has,     \* the instance has its own _node attribute
    inst_node,    \* the instance's _node: 0 = an empty mapping, 1.. = a mapping
    cls_has,      \* the class attribute Node._node exists (reset() sets it to {})
    inst_id,      \* id(Node.__instance): which object the instance is, 0 = None
    hist,         \* history: what the callers did since the last reset
    last_call,    \* the last public call and its outcome
    \* ---- core.py: path resolution over a declared schema graph
    graph,        \* entity type -> declared sequence of relationship edges
    rpc,          \* "declare" while the schema is declared, "done" once resolved
    rkey,         \* the key handed to the resolver (a sequence of segments)
    res,          \* what the resolver returned
    frame,        \* the running resolver's locals: queue, seen, parts, result
    \* ---- core.py: sqla_select and the execution of what it returns
    request,      \* the arguments of sqla_select
    store,        \* the stored rows, table by table, in their physical order
    builder,      \* the SelectBuilder: statement, options and session state
    pending,      \* the resolved paths not yet folded into the builder
    bpc,          \* "call", "fold", "built", "done" or "raised"
    outcome,      \* the rows returned and the entities loaded
    \* ---- functools.lru_cache around the resolvers and the final query
    callers,      \* each concurrent caller: where it is in its call, its builder
    caches,       \* cache name -> entries, the least recently used first
    counts,       \* objects allocated, calls started, cache clears
    era,          \* <<cache, key>> -> how often the entry was evicted or cleared
    rets          \* what the finished calls returned

nodeVars == <<instance, inst_has, inst_node, cls_has, inst_id, hist, last_call>>
resolveVars == <<graph, rpc, rkey, res, frame>>
buildVars == <<request, store, builder, pending, bpc, outcome>>
memoVars == <<callers, caches, counts, era, rets>>
vars == <<instance, inst_has, inst_node, cls_has, inst_id, hist, last_call,
          graph, rpc, rkey, res, frame, request, store, builder, pending, bpc, outcome,
          callers, caches, counts, era, rets>>

(***************************************************************************)
(* Bounds                                                                  *)
(***************************************************************************)
NMaps == 3            \* distinct non-empty mappings a caller may pass
MaxGraphEdges == 4    \* edges declared in a resolver schema graph
MaxSegs == 3          \* segments of a dotted key

(***************************************************************************)
(* node.py                                                                 *)
(***************************************************************************)
Mappings == 0..NMaps          \* 0 is the empty mapping {}

\* getattr(cls.__instance, "_node", None) is truthy
NodeTruthy(has, m, chas) == has /\ m # 0

\* Node.__new__(cls, node): arg = [given |-> BOOLEAN, m |-> mapping]
\* returns the new singleton state and whether RuntimeError was raised.
Node_new_replacing(st, arg) ==
    LET created == [instance |-> TRUE,
                    inst_has |-> arg.given \/ st.inst_has,
                    inst_node |-> IF arg.given THEN arg.m ELSE st.inst_node,
                    cls_has |-> st.cls_has]
    IN [st |-> created,
        raised |-> ~NodeTruthy(created.inst_has, created.inst_node, created.cls_has)]

Node_new(st, arg) ==
    LET created == IF ~st.instance
                   THEN [instance |-> TRUE,
                         inst_has |-> arg.given,
                         inst_node |-> IF arg.given THEN arg.m ELSE 0,
                         cls_has |-> st.cls_has]
                   ELSE st
    IN [st |-> created,
        raised |-> ~NodeTruthy(created.inst_has, created.inst_node, created.cls_has)]

\* Node.set_node(self, node)
set_node(st, m) == [st EXCEPT !.inst_has = TRUE, !.inst_node = m]

\* Node.reset(cls)
reset(st) == [instance |-> FALSE, inst_has |-> FALSE, inst_node |-> 0, cls_has |-> TRUE]

\* Node.node (property): self._node, the instance attribute or the class one
node_property(st) == IF st.inst_has THEN st.inst_node ELSE 0

NodeState == [instance |-> instance, inst_has |-> inst_has,
              inst_node |-> inst_node, cls_has |-> cls_has]

NodeInit ==
    /\ instance = FALSE
    /\ inst_has = FALSE
    /\ inst_node = 0
    /\ cls_has = FALSE
    /\ inst_id = 0
    /\ hist = [init |-> FALSE, first |-> 0, stored |-> 0]
    /\ last_call = [op |-> "none", arg |-> 0, raised |-> FALSE, ret |-> 0, pre |-> FALSE]

\* the singleton once init_node(get_node(Base)) has run
NodeReady ==
    /\ instance = TRUE
    /\ inst_has = TRUE
    /\ inst_node = 1
    /\ cls_has = FALSE
    /\ inst_id = 1
    /\ hist = [init |-> TRUE, first |-> 1, stored |-> 1]
    /\ last_call = [op |-> "init_node", arg |-> 1, raised |-> FALSE, ret |-> 0, pre |-> FALSE]

\* super().__new__(cls): an object that is none of those still referenced,
\* which are the nodes among the arguments the caches hold
FreshId ==
    LET used == UNION {{caches[c][i].key[1] : i \in 1..Len(caches[c])} : c \in DOMAIN caches}
    IN CHOOSE n \in 1..(Cardinality(used) + 1) :
            n \notin used /\ \A k \in 1..(n - 1) : k \in used

SetNodeState(st) ==
    /\ instance' = st.instance
    /\ inst_has' = st.inst_has
    /\ inst_node' = st.inst_node
    /\ cls_has' = st.cls_has
    /\ inst_id' = IF ~st.instance THEN 0 ELSE IF instance THEN inst_id ELSE FreshId

NoArg == [given |-> FALSE, m |-> 0]

\* init_node(m) and Node(m): the same call, the result dropped or kept
InitNode(m) ==
    LET r == Node_new(NodeState, [given |-> TRUE, m |-> m])
        first == ~instance /\ ~r.raised
    IN /\ SetNodeState(r.st)
       /\ last_call' = [op |-> "init_node", arg |-> m, raised |-> r.raised,
                        ret |-> 0, pre |-> hist.init]
       /\ hist' = IF first THEN [init |-> TRUE, first |-> m, stored |-> m] ELSE hist
       /\ UNCHANGED <<resolveVars, buildVars, memoVars>>

\* Node().node and Node().get(model): a read of the mapping
ReadNode ==
    LET r == Node_new(NodeState, NoArg)
    IN /\ SetNodeState(r.st)
       /\ last_call' = [op |-> "read", arg |-> 0, raised |-> r.raised,
                        ret |-> IF r.raised THEN 0 ELSE node_property(r.st),
                        pre |-> hist.init]
       /\ UNCHANGED <<hist>>
       /\ UNCHANGED <<resolveVars, buildVars, memoVars>>

\* Node().set_node(m)
SetNode(m) ==
    LET r == Node_new(NodeState, NoArg)
    IN /\ SetNodeState(IF r.raised THEN r.st ELSE set_node(r.st, m))
       /\ last_call' = [op |-> "set_node", arg |-> m, raised |-> r.raised,
                        ret |-> 0, pre |-> hist.init]
       /\ hist' = IF r.raised THEN hist ELSE [hist EXCEPT !.stored = m]
       /\ UNCHANGED <<resolveVars, buildVars, memoVars>>

\* Node.reset()
Reset ==
    /\ SetNodeState(reset(NodeState))
    /\ last_call' = [op |-> "reset", arg |-> 0, raised |-> FALSE, ret |-> 0,
                     pre |-> hist.init]
    /\ hist' = [init |-> FALSE, first |-> 0, stored |-> 0]
    /\ UNCHANGED <<resolveVars, buildVars, memoVars>>

NodeNext ==
    \/ \E m \in Mappings : InitNode(m)
    \/ ReadNode
    \/ \E m \in Mappings : SetNode(m)
    \/ Reset

(***************************************************************************)
(* core.py: path resolution                                                *)
(***************************************************************************)
Types == {"A", "B", "C"}
Keys == {"a", "b", "k"}
StartType == "A"

\* Node.get(model): the declared edges of a type, () for an unknown type
NodeGet(g, cls) == IF cls \in DOMAIN g THEN g[cls] ELSE <<>>

\* index of the first edge of rels whose key is key, 0 if none
FirstWithKey(rels, key) ==
    IF \E i \in 1..Len(rels) : rels[i].key = key
    THEN CHOOSE i \in 1..Len(rels) :
            /\ rels[i].key = key
            /\ \A j \in 1..(i - 1) : rels[j].key # key
    ELSE 0

Children(rels, path) ==
    [i \in 1..Len(rels) |-> [cls |-> rels[i].target, path |-> Append(path, rels[i])]]

\* a depth-first variant: new entries go to the front of the queue
RECURSIVE BfsLoop_dfs(_, _, _, _, _)
BfsLoop_dfs(g, end, queue, seen, expanded) ==
    IF queue = <<>> THEN [path |-> <<>>, expanded |-> expanded]
    ELSE LET current == Head(queue).cls
             path == Head(queue).path
             rels == NodeGet(g, current)
             hit == FirstWithKey(rels, end)
         IN IF current \in seen
            THEN BfsLoop_dfs(g, end, Tail(queue), seen, expanded)
            ELSE IF hit # 0
            THEN [path |-> Append(path, rels[hit]), expanded |-> Append(expanded, current)]
            ELSE BfsLoop_dfs(g, end, Children(rels, path) \o Tail(queue),
                             seen \cup {current}, Append(expanded, current))

\* the while loop of _bfs_search
RECURSIVE BfsLoop(_, _, _, _, _)
BfsLoop(g, end, queue, seen, expanded) ==
    IF queue = <<>> THEN [path |-> <<>>, expanded |-> expanded]
    ELSE LET current == Head(queue).cls
             path == Head(queue).path
             rels == NodeGet(g, current)
             hit == FirstWithKey(rels, end)
         IN IF current \in seen
            THEN BfsLoop(g, end, Tail(queue), seen, expanded)
            ELSE IF hit # 0
            THEN [path |-> Append(path, rels[hit]), expanded |-> Append(expanded, current)]
            ELSE BfsLoop(g, end, Tail(queue) \o Children(rels, path),
                         seen \cup {current}, Append(expanded, current))

\* _bfs_search(start, end, node)
BfsSearch(g, start, end) ==
    BfsLoop(g, end, <<[cls |-> start, path |-> <<>>]>>, {}, <<>>)

OkPath(p) == [ok |-> TRUE, path |-> p, segment |-> "", cls |-> ""]
BadSegment(seg, cls) == [ok |-> FALSE, path |-> <<>>, segment |-> seg, cls |-> cls]

\* a variant that bridges a missing segment by breadth-first search
RECURSIVE DottedLoop_bfs(_, _, _, _)
DottedLoop_bfs(g, parts, current_cls, result) ==
    IF parts = <<>> THEN OkPath(result)
    ELSE LET rels == NodeGet(g, current_cls)
             i == FirstWithKey(rels, Head(parts))
             found == BfsSearch(g, current_cls, Head(parts)).path
         IN IF i # 0
            THEN DottedLoop_bfs(g, Tail(parts), rels[i].target, Append(result, rels[i]))
            ELSE IF found # <<>>
            THEN DottedLoop_bfs(g, Tail(parts), found[Len(found)].target, result \o found)
            ELSE BadSegment(Head(parts), current_cls)

\* the for loop of _resolve_dotted_path
RECURSIVE DottedLoop(_, _, _, _)
DottedLoop(g, parts, current_cls, result) ==
    IF parts = <<>> THEN OkPath(result)
    ELSE LET rels == NodeGet(g, current_cls)
             i == FirstWithKey(rels, Head(parts))
         IN IF i = 0
            THEN BadSegment(Head(parts), current_cls)
            ELSE DottedLoop(g, Tail(parts), rels[i].target, Append(result, rels[i]))

\* _resolve_dotted_path(model, dotted, node); parts = dotted.split(".")
ResolveDottedPath(g, model, parts) ==
    IF Len(parts) = 1
    THEN OkPath(BfsSearch(g, model, parts[1]).path)
    ELSE DottedLoop(g, parts, model, <<>>)

\* SelectBuilder.build, lines 198-202: the resolver chosen by the key's shape
Resolve(g, model, parts) ==
    IF Len(parts) > 1
    THEN ResolveDottedPath(g, model, parts) @@ [expanded |-> <<>>]
    ELSE LET r == BfsSearch(g, model, parts[1])
         IN OkPath(r.path) @@ [expanded |-> r.expanded]

GraphEdgeCount == LET RECURSIVE Sum(_)
                      Sum(S) == IF S = {} THEN 0
                                ELSE LET t == CHOOSE x \in S : TRUE
                                     IN Len(graph[t]) + Sum(S \ {t})
                  IN Sum(Types)

\* a mapped class declares one more relationship
DeclareEdge(t, key, target) ==
    /\ rpc = "declare"
    /\ GraphEdgeCount < MaxGraphEdges
    /\ \A i \in 1..Len(graph[t]) : graph[t][i].key # key
    /\ graph' = [graph EXCEPT ![t] = Append(@, [key |-> key, parent |-> t, target |-> target])]
    /\ UNCHANGED <<rpc, rkey, res, frame>>
    /\ UNCHANGED <<nodeVars, buildVars, memoVars>>

DottedKeys == UNION {[1..n -> Keys] : n \in 2..MaxSegs}
BareKeys == {<<"k">>}

\* one resolution of a key from the start type
ResolveKey(parts) ==
    /\ rpc = "declare"
    /\ rpc' = "done"
    /\ rkey' = parts
    /\ res' = Resolve(graph, StartType, parts)
    /\ UNCHANGED <<graph, frame>>
    /\ UNCHANGED <<nodeVars, buildVars, memoVars>>

ResolveInit ==
    /\ graph = [t \in Types |-> <<>>]
    /\ rpc = "declare"
    /\ rkey = <<>>
    /\ res = OkPath(<<>>) @@ [expanded |-> <<>>]
    /\ frame = [queue |-> <<>>, seen |-> {}, expanded |-> <<>>,
                parts |-> <<>>, current_cls |-> "", result |-> <<>>]

ResolveNext ==
    \/ \E t \in Types, key \in Keys, target \in Types : DeclareEdge(t, key, target)
    \/ \E parts \in BareKeys \cup DottedKeys : ResolveKey(parts)


(***************************************************************************)
(* tests/models.py: the mapped schema the builder is exercised on          *)
(***************************************************************************)
\* a relationship: primaryjoin is parent.pcol = target.tcol, or, with a
\* secondary table, parent.pcol = secondary.spcol and the secondaryjoin is
\* target.tcol = secondary.stcol
Direct(key, parent, target, uselist, pcol, tcol) ==
    [key |-> key, parent |-> parent, target |-> target, uselist |-> uselist,
     secondary |-> "", pcol |-> pcol, tcol |-> tcol, spcol |-> "", stcol |-> ""]

Through(key, parent, target, secondary, spcol, stcol) ==
    [key |-> key, parent |-> parent, target |-> target, uselist |-> TRUE,
     secondary |-> secondary, pcol |-> "id", tcol |-> "id",
     spcol |-> spcol, stcol |-> stcol]

Classes == {"User", "Post", "Comment", "Tag", "PostTag", "Role", "Category"}

\* get_table_name(cls)
TableName == [c \in Classes |->
    CASE c = "User" -> "users"
      [] c = "Post" -> "posts"
      [] c = "Comment" -> "comments"
      [] c = "Tag" -> "tags"
      [] c = "PostTag" -> "post_tags"
      [] c = "Role" -> "roles"
      [] c = "Category" -> "categories"]

\* get_node(Base): every class with its relationships in declared order
TestSchema == [c \in Classes |->
    CASE c = "User" ->
            << Direct("posts", "User", "Post", TRUE, "id", "author_id"),
               Through("roles", "User", "Role", "user_roles", "user_id", "role_id") >>
      [] c = "Post" ->
            << Direct("author", "Post", "User", FALSE, "author_id", "id"),
               Direct("comments", "Post", "Comment", TRUE, "id", "post_id"),
               Through("tags", "Post", "Tag", "post_tags", "post_id", "tag_id"),
               Direct("post_tags", "Post", "PostTag", TRUE, "id", "post_id") >>
      [] c = "Tag" ->
            << Through("posts", "Tag", "Post", "post_tags", "tag_id", "post_id"),
               Direct("post_tags", "Tag", "PostTag", TRUE, "id", "tag_id") >>
      [] c = "PostTag" ->
            << Direct("post", "PostTag", "Post", FALSE, "post_id", "id"),
               Direct("tag", "PostTag", "Tag", FALSE, "tag_id", "id") >>
      [] c = "Comment" ->
            << Direct("post", "Comment", "Post", FALSE, "post_id", "id") >>
      [] c = "Role" ->
            << Through("users", "Role", "User", "user_roles", "role_id", "user_id") >>
      [] c = "Category" ->
            << Direct("parent", "Category", "Category", FALSE, "parent_id", "id"),
               Direct("children", "Category", "Category", TRUE, "id", "parent_id") >>]

\* _find_self_key(model): the column of a foreign key to the model's own table
\* the same classes with one more relationship, from a post to the category
\* it is filed under: a self-referential type reached from another root
FiledSchema ==
    [TestSchema EXCEPT !["Post"] =
        Append(@, Direct("category", "Post", "Category", FALSE, "category_id", "id"))]

FindSelfKey(model) == IF model = "Category" THEN "parent_id" ELSE ""

(***************************************************************************)
(* The SQL the builder emits: FROM items, predicates, and their evaluation *)
(***************************************************************************)
NULL == 0
NoLimit == -1     \* limit=None

\* a column reference, resolved by the name of a FROM item in scope
Ref(name, col) == [name |-> name, col |-> col]
NoRef == Ref("", "")

\* lhs = rhs, and lhs != val
Eq(lhs, rhs) == [op |-> "eq", lhs |-> lhs, rhs |-> rhs, val |-> NULL]
Ne(lhs, val) == [op |-> "ne", lhs |-> lhs, rhs |-> NoRef, val |-> val]

\* the row an outer join supplies when nothing matches
NullRow == [null |-> TRUE]
Col(row, c) == IF c \in DOMAIN row THEN row[c] ELSE NULL

\* scope: FROM name -> row; inner names shadow outer ones
Lookup(scope, ref) ==
    IF ref.name \in DOMAIN scope THEN Col(scope[ref.name], ref.col) ELSE NULL

\* a comparison with NULL is not true
Holds(p, scope) ==
    LET l == Lookup(scope, p.lhs)
        r == Lookup(scope, p.rhs)
    IN IF p.op = "eq" THEN l # NULL /\ r # NULL /\ l = r
       ELSE l # NULL /\ l # p.val

AllHold(ps, scope) == \A i \in 1..Len(ps) : Holds(ps[i], scope)

\* ORDER BY key DESC over entries [key, row]; equal keys keep their order
RECURSIVE InsertDesc(_, _)
InsertDesc(x, t) ==
    IF t = <<>> THEN <<x>>
    ELSE IF Head(t).key <= x.key THEN <<x>> \o t
    ELSE <<Head(t)>> \o InsertDesc(x, Tail(t))

RECURSIVE SortDesc(_)
SortDesc(s) == IF s = <<>> THEN <<>> ELSE InsertDesc(Head(s), SortDesc(Tail(s)))

Take(s, n) == IF n = NoLimit \/ n >= Len(s) THEN s ELSE SubSeq(s, 1, n)

RECURSIVE Flatten(_)
Flatten(ss) == IF ss = <<>> THEN <<>> ELSE Head(ss) \o Flatten(Tail(ss))

\* the FROM of a sub-select: its table under its name, inner-joined to the
\* secondary table when there is one
SelectFrom(sel, db) ==
    LET own == [i \in 1..Len(db[sel.table]) |-> (sel.from :> db[sel.table][i])]
    IN IF sel.sec = "" THEN own
       ELSE LET pairs(srow) ==
                    SelectSeq([i \in 1..Len(own) |-> (sel.sec :> srow) @@ own[i]],
                              LAMBDA c : AllHold(sel.sec_on, c))
            IN Flatten([j \in 1..Len(db[sel.sec]) |-> pairs(db[sel.sec][j])])

\* SELECT ... FROM ... WHERE ... ORDER BY ... DESC LIMIT ..., evaluated for
\* one row of the enclosing query; with rn, wrapped in row_number() OVER ()
EvalSelect(sel, outer, db) ==
    LET cands == SelectSeq(SelectFrom(sel, db), LAMBDA c : AllHold(sel.where, c @@ outer))
        keyed == [i \in 1..Len(cands) |->
                    [key |-> Lookup(cands[i] @@ outer, sel.order), row |-> cands[i][sel.from]]]
        kept == Take(SortDesc(keyed), sel.limit)
    IN [i \in 1..Len(kept) |->
            IF sel.rn THEN ("_sqla_rn" :> i) @@ kept[i].row ELSE kept[i].row]

\* WITH RECURSIVE: 1, then _rn + 1 while _rn < max
Series(max) == [i \in 1..(IF max < 1 THEN 1 ELSE max) |-> [_rn |-> i]]

ItemRows(item, outer, db) ==
    CASE item.kind = "lateral" -> EvalSelect(item.sel, outer, db)
      [] item.kind = "series" -> Series(item.max)
      [] OTHER -> db[item.table]

\* LEFT OUTER JOIN item ON item.on, for one row of the left side
ExtendRow(b, item, db) ==
    LET matched == SelectSeq(ItemRows(item, b, db),
                             LAMBDA r : AllHold(item.on, (item.name :> r) @@ b))
    IN IF matched = <<>> THEN << (item.name :> NullRow) @@ b >>
       ELSE [i \in 1..Len(matched) |-> (item.name :> matched[i]) @@ b]

RECURSIVE JoinAll(_, _, _)
JoinAll(rows, joins, db) ==
    IF joins = <<>> THEN rows
    ELSE JoinAll(Flatten([i \in 1..Len(rows) |-> ExtendRow(rows[i], Head(joins), db)]),
                 Tail(joins), db)

\* the rows of the whole statement
EvalQuery(q, db) ==
    LET roots == [i \in 1..Len(db[q.root]) |-> (q.root :> db[q.root][i])]
        joined == JoinAll(roots, q.joins, db)
    IN Take(SelectSeq(joined, LAMBDA b : AllHold(q.where, b)), q.limit)

(***************************************************************************)
(* core.py: the statements and loader options the builder puts together    *)
(***************************************************************************)
FilteredId == 1       \* a "where" filter keeps the rows whose id is not this
FilterLimit == 3      \* a "limit" filter sets this LIMIT

\* sa.select(entity): FROM table AS from
SelectOf(from, table) ==
    [from |-> from, table |-> table, sec |-> "", sec_on |-> <<>>, where |-> <<>>,
     order |-> NoRef, limit |-> NoLimit, rn |-> FALSE, correlate_except |-> FALSE]
NoSelect == SelectOf("", "")

AddWhere(q, preds) == [q EXCEPT !.where = @ \o preds]

\* FROM items of the outer statement
TableItem(name, table, on) ==
    [kind |-> IF name = table THEN "table" ELSE "alias", name |-> name,
     table |-> table, on |-> on, sel |-> NoSelect, max |-> 0]
LateralItem(name, sel, on) ==
    [kind |-> "lateral", name |-> name, table |-> sel.table, on |-> on,
     sel |-> sel, max |-> 0]
SeriesItem(name, max) ==
    [kind |-> "series", name |-> name, table |-> "", on |-> <<>>,
     sel |-> NoSelect, max |-> max]

\* query.outerjoin(item, on)
OuterJoin(q, item) == [q EXCEPT !.joins = Append(@, item)]

\* get_table_names(query)
TableNames(q) ==
    {q.root} \cup {q.joins[i].name : i \in 1..Len(q.joins)}
             \cup {q.joins[i].table : i \in {j \in 1..Len(q.joins) : q.joins[j].kind = "alias"}}

\* relationship.primaryjoin and relationship.secondaryjoin
PrimaryJoin(rel) ==
    IF rel.secondary = ""
    THEN << Eq(Ref(TableName[rel.parent], rel.pcol), Ref(TableName[rel.target], rel.tcol)) >>
    ELSE << Eq(Ref(TableName[rel.parent], rel.pcol), Ref(rel.secondary, rel.spcol)) >>
SecondaryJoin(rel) ==
    << Eq(Ref(TableName[rel.target], rel.tcol), Ref(rel.secondary, rel.stcol)) >>

\* ClauseAdapter(selectable).traverse(clause): columns of table become the
\* columns of the selectable called name
AdaptRef(ref, table, name) == IF ref.name = table THEN Ref(name, ref.col) ELSE ref
Adapt(preds, table, name) ==
    [i \in 1..Len(preds) |->
        [preds[i] EXCEPT !.lhs = AdaptRef(@, table, name), !.rhs = AdaptRef(@, table, name)]]

\* adapter.traverse(clause) if adapter else clause; adapter is "" for None
AdaptWith(adapter, preds, table) ==
    IF adapter = "" THEN preds ELSE Adapt(preds, table, adapter)

\* the callers' filters, keyed by relationship key: a function of a statement
HasCondition(conds, key) == key \in DOMAIN conds
WhereClause(kind, cls) ==
    IF kind = "where" THEN << Ne(Ref(TableName[cls], "id"), FilteredId) >> ELSE <<>>
FilterApply(kind, q, cls) ==
    CASE kind = "where" -> AddWhere(q, WhereClause(kind, cls))
      [] kind = "limit" -> [q EXCEPT !.limit = FilterLimit]
      [] OTHER -> q

\* _apply_conditions(query, key, conditions)
ApplyConditions(q, key, conds, cls) ==
    IF HasCondition(conds, key) THEN FilterApply(conds[key], q, cls) ELSE q

\* a variant that ignores the cap a filter has set
ExtractLimit_default(q, default) == default

\* _extract_limit(query, default)
ExtractLimit(q, default) == IF q.limit # NoLimit THEN q.limit ELSE default

\* _apply_order_by(query, relation_cls, None): the table's primary key, DESC
ApplyOrderBy(q, cls) == [q EXCEPT !.order = Ref(TableName[cls], "id")]

\* _construct_strategy(strategy, relationship, current, alias=...)
ConstructStrategy(strategy, rel, current, alias) ==
    Append(current, [rel |-> rel, strategy |-> strategy, alias |-> alias, where |-> <<>>])

LoadOption(load) == [kind |-> "load", load |-> load, cls |-> "", where |-> <<>>]
\* orm.with_loader_criteria(cls, clause)
CriteriaOption(cls, clause) == [kind |-> "criteria", load |-> <<>>, cls |-> cls, where |-> clause]

\* SelectBuilder.__init__; invoked, built and turns record, for the claims,
\* the filters called, the calls of _load_relationship with what they joined,
\* and the turns of the loop of _construct_loads
NewBuilder(r) ==
    [query |-> [root |-> TableName[r.model], joins |-> <<>>, where |-> <<>>,
                limit |-> NoLimit],
     options |-> <<>>,
     loaded |-> <<>>,
     seen_classes |-> {r.model},
     self_ref_loaded |-> {},
     first_load_by_class |-> <<>>,
     lateral_map |-> <<>>,
     zip_levels |-> <<>>,
     invoked |-> {},
     built |-> <<>>,
     turns |-> <<>>,
     raised |-> ""]

Invoke(sb, conds, key) ==
    IF HasCondition(conds, key) THEN [sb EXCEPT !.invoked = @ \cup {key}] ELSE sb

\* _get_clause_adapter(table): the name of the lateral standing for it, or ""
GetClauseAdapter(sb, table) ==
    IF table \in DOMAIN sb.lateral_map THEN sb.lateral_map[table] ELSE ""

\* the name given to the lateral of a relationship
LateralName(rel, is_alias) ==
    IF is_alias THEN TableName[rel.target] \o "_" \o rel.key ELSE TableName[rel.target]

\* sa.select(relation_cls).limit(limit), ordered, then the caller's filter
CappedSelect(r, rel) ==
    LET cls == rel.target
        table == TableName[cls]
    IN ApplyConditions(ApplyOrderBy([SelectOf(table, table) EXCEPT !.limit = r.limit], cls),
                       rel.key, r.conditions, cls)

\* _load_lateral: a lateral joined ON TRUE; for a secondary table without a
\* lateral of its own, the secondary table is outer-joined first
LoadLateral(sb, r, rel, load, is_alias) ==
    LET table == TableName[rel.target]
        parent == TableName[rel.parent]
        pj == AdaptWith(GetClauseAdapter(sb, parent), PrimaryJoin(rel), parent)
        has_sec == rel.secondary # ""
        sec_lateral == GetClauseAdapter(sb, rel.secondary)
        subq1 == IF has_sec
                 THEN AddWhere(CappedSelect(r, rel),
                               AdaptWith(sec_lateral, SecondaryJoin(rel), rel.secondary))
                 ELSE AddWhere(CappedSelect(r, rel), pj)
        q1 == IF has_sec /\ sec_lateral = ""
                 /\ ~(r.check_tables /\ rel.secondary \in TableNames(sb.query))
              THEN OuterJoin(sb.query, TableItem(rel.secondary, rel.secondary, pj))
              ELSE sb.query
        name0 == LateralName(rel, is_alias)
        clash == r.check_tables /\ name0 \in TableNames(q1)
        name == IF clash THEN name0 \o "_alias" ELSE name0
        subq == IF clash THEN [subq1 EXCEPT !.correlate_except = TRUE] ELSE subq1
    IN [sb |-> [Invoke(sb, r.conditions, rel.key) EXCEPT
                    !.query = OuterJoin(q1, LateralItem(name, subq, <<>>)),
                    !.lateral_map = (table :> name) @@ @],
        load |-> ConstructStrategy("contains_eager", rel, load, name)]

\* _load_lateral_zip_o2m: the lateral numbers its rows and is joined on
\* row number = rank of the shared series
LoadLateralZipO2M(sb, r, rel, load, is_alias, rn_series) ==
    LET table == TableName[rel.target]
        parent == TableName[rel.parent]
        pj == AdaptWith(GetClauseAdapter(sb, parent), PrimaryJoin(rel), parent)
        inner == [AddWhere(CappedSelect(r, rel), pj) EXCEPT
                    !.correlate_except = TRUE, !.rn = TRUE]
        name0 == LateralName(rel, is_alias)
        name == IF r.check_tables /\ name0 \in TableNames(sb.query)
                THEN name0 \o "_alias" ELSE name0
        on == << Eq(Ref(name, "_sqla_rn"), Ref(rn_series, "_rn")) >>
    IN [sb |-> [Invoke(sb, r.conditions, rel.key) EXCEPT
                    !.query = OuterJoin(@, LateralItem(name, inner, on)),
                    !.lateral_map = (table :> name) @@ @],
        load |-> ConstructStrategy("contains_eager", rel, load, name)]

\* _load_lateral_zip_m2m: the secondary table is joined inside the lateral,
\* and the cap is set again after the caller's filter
LoadLateralZipM2M(sb, r, rel, load, is_alias, rn_series) ==
    LET cls == rel.target
        table == TableName[cls]
        parent == TableName[rel.parent]
        pj == AdaptWith(GetClauseAdapter(sb, parent), PrimaryJoin(rel), parent)
        joined == [SelectOf(table, table) EXCEPT
                    !.sec = rel.secondary, !.sec_on = SecondaryJoin(rel), !.where = pj]
        inner == [ApplyConditions(ApplyOrderBy(joined, cls), rel.key, r.conditions, cls)
                    EXCEPT !.limit = r.limit, !.correlate_except = TRUE, !.rn = TRUE]
        name == LateralName(rel, is_alias)
        on == << Eq(Ref(name, "_sqla_rn"), Ref(rn_series, "_rn")) >>
    IN [sb |-> [Invoke(sb, r.conditions, rel.key) EXCEPT
                    !.query = OuterJoin(@, LateralItem(name, inner, on)),
                    !.lateral_map = (table :> name) @@ @],
        load |-> ConstructStrategy("contains_eager", rel, load, name)]

\* _load_m2o
\* a variant of _load_m2o that joins the target whether or not its type has
\* been seen
LoadM2O_joining(sb, r, rel, load, is_alias) ==
    LET cls == rel.target
        table == TableName[cls]
    IN IF TableName[rel.parent] \in TableNames(sb.query)
       THEN [sb |-> [Invoke(sb, r.conditions, rel.key) EXCEPT
                        !.query = ApplyConditions(
                                    OuterJoin(@, TableItem(table, table, PrimaryJoin(rel))),
                                    rel.key, r.conditions, cls)],
             load |-> ConstructStrategy("contains_eager", rel, load, "")]
       ELSE [sb |-> sb, load |-> ConstructStrategy("joinedload", rel, load, "")]

LoadM2O(sb, r, rel, load, is_alias) ==
    LET cls == rel.target
        table == TableName[cls]
    IN IF is_alias
       THEN [sb |-> sb, load |-> ConstructStrategy("selectinload", rel, load, "")]
       ELSE IF TableName[rel.parent] \in TableNames(sb.query)
       THEN [sb |-> [Invoke(sb, r.conditions, rel.key) EXCEPT
                        !.query = ApplyConditions(
                                    OuterJoin(@, TableItem(table, table, PrimaryJoin(rel))),
                                    rel.key, r.conditions, cls)],
             load |-> ConstructStrategy("contains_eager", rel, load, "")]
       ELSE [sb |-> sb, load |-> ConstructStrategy("joinedload", rel, load, "")]

\* _load_self.adapted: the filter's WHERE clause moved onto the alias
AdaptedApply(conds, key, q, cls, name) ==
    IF HasCondition(conds, key)
    THEN AddWhere(q, Adapt(WhereClause(conds[key], cls), TableName[cls], name))
    ELSE q

\* _load_self(params, side)
LoadSelf(sb, r, rel, load) ==
    LET cls == rel.target
        table == TableName[cls]
        name == table \o "_" \o rel.key
        clause == IF HasCondition(r.conditions, rel.key)
                  THEN WhereClause(r.conditions[rel.key], cls) ELSE <<>>
        invoked == Invoke(sb, r.conditions, rel.key)
        \* side == "many", self.limit truthy
        subq == AddWhere(
                    AdaptedApply(r.conditions, rel.key,
                        ApplyOrderBy([SelectOf(name, table) EXCEPT !.limit = r.limit], cls),
                        cls, name),
                    << Eq(Ref(table, "id"), Ref(name, r.self_key)) >>)
        \* side == "many", self.limit None or 0
        joined == AdaptedApply(r.conditions, rel.key,
                      OuterJoin(sb.query,
                          TableItem(name, table, << Eq(Ref(table, "id"), Ref(name, r.self_key)) >>)),
                      cls, name)
        \* side == "one"
        join_cond == << Eq(Ref(table, r.self_key), Ref(name, "id")) >>
                        \o Adapt(clause, table, name)
    IN IF r.model \in sb.self_ref_loaded
       THEN [sb |-> invoked,
             load |-> Append(load, [rel |-> rel, strategy |-> "selectinload",
                                    alias |-> "", where |-> clause])]
       ELSE [sb |-> [invoked EXCEPT
                        !.query = IF rel.uselist
                                  THEN IF r.limit # NoLimit /\ r.limit # 0
                                       THEN OuterJoin(@, LateralItem(name, subq, <<>>))
                                       ELSE joined
                                  ELSE OuterJoin(@, TableItem(name, table, join_cond)),
                        !.self_ref_loaded = @ \cup {r.model}],
             load |-> ConstructStrategy("contains_eager", rel, load, name)]

Raise(sb, error) == [sb EXCEPT !.raised = error]

\* _load_relationship(params)
LoadRelationship(sb, r, rel, load, is_alias, rn_series) ==
    IF rel.target = r.model /\ rel.parent = rel.target
    THEN IF r.self_key = ""
         THEN [sb |-> Raise(sb, "ValueError"), load |-> load]
         ELSE LoadSelf(sb, r, rel, load)
    ELSE IF rel.uselist
    THEN IF r.limit = NoLimit
         THEN [sb |-> sb, load |-> ConstructStrategy(r.many_load, rel, load, "")]
         ELSE IF rn_series # "" /\ rel.secondary # ""
                    /\ GetClauseAdapter(sb, rel.secondary) = ""
         THEN LoadLateralZipM2M(sb, r, rel, load, is_alias, rn_series)
         ELSE IF rn_series # "" /\ rel.secondary = ""
         THEN LoadLateralZipO2M(sb, r, rel, load, is_alias, rn_series)
         ELSE LoadLateral(sb, r, rel, load, is_alias)
    ELSE LoadM2O(sb, r, rel, load, is_alias)

\* a variant of the test of _construct_loads that never finds a path built
AlreadyLoaded_never(sb, cumulative_path) == FALSE

\* _construct_loads, line 261: cumulative_path in self._loaded
AlreadyLoaded(sb, cumulative_path) == cumulative_path \in DOMAIN sb.loaded

\* the for loop of _construct_loads, from the relationship at position i
RECURSIVE ConstructLoop(_, _, _, _, _, _, _)
ConstructLoop(sb, r, rels, i, load, criteria, extra) ==
    IF i > Len(rels)
    THEN [sb |-> sb,
          options |-> IF load = <<>> THEN <<>> ELSE <<LoadOption(load)>> \o criteria \o extra]
    ELSE
    LET rel == rels[i]
        cls == rel.target
        key == rel.key
        cumulative_path == [j \in 1..i |-> rels[j].key]
        is_self_ref == cls = r.model /\ rel.parent = cls
        asked == /\ HasCondition(r.conditions, key)
                 /\ ~is_self_ref
                 /\ \/ rel.uselist /\ r.limit = NoLimit
                    \/ cumulative_path \in DOMAIN sb.loaded /\ <<key>> \notin DOMAIN sb.loaded
        clause == IF asked THEN WhereClause(r.conditions[key], cls) ELSE <<>>
        criteria1 == IF clause # <<>> THEN Append(criteria, CriteriaOption(cls, clause))
                     ELSE criteria
        sb0 == [sb EXCEPT !.turns = Append(@, cumulative_path)]
        sb1 == IF asked THEN Invoke(sb0, r.conditions, key) ELSE sb0
        is_alias == cls \in sb1.seen_classes
        depth == i - 1
        rn_series == IF rel.uselist /\ depth \in DOMAIN sb1.zip_levels
                     THEN sb1.zip_levels[depth] ELSE ""
        res1 == LoadRelationship(sb1, r, rel, load, is_alias, rn_series)
        first_load == IF rel.parent \in DOMAIN sb1.first_load_by_class
                      THEN sb1.first_load_by_class[rel.parent] ELSE <<>>
        extra1 == IF is_alias /\ ~rel.uselist /\ first_load # <<>>
                  THEN Append(extra, LoadOption(ConstructStrategy("selectinload", rel, first_load, "")))
                  ELSE extra
        added == SubSeq(res1.sb.query.joins, Len(sb1.query.joins) + 1,
                        Len(res1.sb.query.joins))
        sb2 == [res1.sb EXCEPT
                    !.loaded = (cumulative_path :> res1.load) @@ @,
                    !.built = Append(@, [path |-> cumulative_path,
                                         items |-> [j \in 1..Len(added) |-> added[j].name]]),
                    !.first_load_by_class = IF cls \in DOMAIN @ THEN @
                                            ELSE (cls :> res1.load) @@ @,
                    !.seen_classes = @ \cup {cls}]
    IN IF AlreadyLoaded(sb1, cumulative_path)
       THEN ConstructLoop([sb1 EXCEPT !.seen_classes = @ \cup {cls}], r, rels, i + 1,
                          sb1.loaded[cumulative_path], criteria1, extra)
       ELSE IF res1.sb.raised # ""
       THEN [sb |-> res1.sb, options |-> <<>>]
       ELSE ConstructLoop(sb2, r, rels, i + 1, res1.load, criteria1, extra1)

\* _construct_loads(relationships), and the += of _construct
ConstructLoads(sb, r, rels) ==
    LET out == ConstructLoop(sb, r, rels, 1, <<>>, <<>>, <<>>)
    IN [out.sb EXCEPT !.options = @ \o out.options]

RECURSIVE Ascending(_)
Ascending(S) ==
    IF S = {} THEN <<>>
    ELSE LET m == CHOOSE x \in S : \A y \in S : x <= y
         IN <<m>> \o Ascending(S \ {m})

MaxOf(S) == CHOOSE x \in S : \A y \in S : y <= x

\* _check_zip_needs(resolved)
CheckZipNeeds(sb, r, resolved) ==
    LET hops == UNION {{[rel |-> resolved[p][i], depth |-> i - 1,
                         cp |-> [j \in 1..i |-> resolved[p][j].key]] :
                            i \in 1..Len(resolved[p])} : p \in 1..Len(resolved)}
        is_self_ref(rel) == rel.target = r.model /\ rel.parent = rel.target
        depth_paths(d) == {h.cp : h \in {x \in hops :
                                x.depth = d /\ x.rel.uselist /\ ~is_self_ref(x.rel)}}
        zip_depths == Ascending({d \in {h.depth : h \in hops} :
                                    Cardinality(depth_paths(d)) >= 2})
        probed == IF r.conditions = <<>> THEN {}
                  ELSE {h.rel : h \in {x \in hops :
                            x.rel.uselist /\ \E i \in 1..Len(zip_depths) : zip_depths[i] = x.depth}}
        probe(rel) == ApplyConditions([SelectOf("", "") EXCEPT !.limit = r.limit],
                                      rel.key, r.conditions, rel.target)
        max_limit == MaxOf({r.limit} \cup {ExtractLimit(probe(rel), r.limit) : rel \in probed})
        name(idx) == IF idx = 0 THEN "_sqla_rn" ELSE "_sqla_rn_" \o ToString(idx)
        series == [i \in 1..Len(zip_depths) |-> SeriesItem(name(i - 1), max_limit)]
    IN IF r.limit = NoLimit \/ ~r.optimization \/ zip_depths = <<>> THEN sb
       ELSE [sb EXCEPT
                !.invoked = @ \cup {rel.key : rel \in {x \in probed : HasCondition(r.conditions, x.key)}},
                !.zip_levels = [d \in {zip_depths[i] : i \in 1..Len(zip_depths)} |->
                                    name((CHOOSE i \in 1..Len(zip_depths) : zip_depths[i] = d) - 1)],
                !.query = [@ EXCEPT !.joins = @ \o series]]

\* _construct, lines 638-651: a direct relationship onto the table that a
\* many-to-many one uses as its secondary is moved in front of it
ReorderKey(rels) ==
    IF rels[1].secondary # "" THEN rels[1].secondary ELSE TableName[rels[1].target]

RECURSIVE SwapAll(_, _, _)
SwapAll(resolved, original, keys) ==
    IF keys = <<>> THEN resolved
    ELSE LET t == Head(keys)
             o2m == {i \in 1..Len(original) :
                        original[i][1].secondary = "" /\ ReorderKey(original[i]) = t}
             m2m == {i \in 1..Len(original) : original[i][1].secondary = t}
             a == MaxOf(o2m)
             b == MaxOf(m2m)
         IN IF o2m # {} /\ m2m # {} /\ a > b
            THEN SwapAll([resolved EXCEPT ![a] = resolved[b], ![b] = resolved[a]],
                         original, Tail(keys))
            ELSE SwapAll(resolved, original, Tail(keys))

RECURSIVE FirstSeen(_, _)
FirstSeen(s, seen) ==
    IF s = <<>> THEN <<>>
    ELSE IF Head(s) \in seen THEN FirstSeen(Tail(s), seen)
    ELSE <<Head(s)>> \o FirstSeen(Tail(s), seen \cup {Head(s)})

Reorder(resolved) ==
    SwapAll(resolved, resolved,
            FirstSeen([i \in 1..Len(resolved) |-> ReorderKey(resolved[i])], {}))

\* build(), lines 189-194: dotted keys deepest first, then the bare keys
OrderedLoads(loads) ==
    LET dotted == SelectSeq(loads, LAMBDA l : Len(l) > 1)
        simple == SelectSeq(loads, LAMBDA l : Len(l) = 1)
        sorted == SortDesc([i \in 1..Len(dotted) |-> [key |-> Len(dotted[i]), row |-> dotted[i]]])
    IN [i \in 1..Len(sorted) |-> sorted[i].row] \o simple

\* a variant of the resolution in build() that rejects a key it cannot
\* resolve instead of dropping it
RECURSIVE ResolveAll_raising(_, _)
ResolveAll_raising(model, keys) ==
    IF keys = <<>> THEN [ok |-> TRUE, resolved |-> <<>>]
    ELSE LET one == Resolve(TestSchema, model, Head(keys))
             rest == ResolveAll_raising(model, Tail(keys))
         IN IF ~one.ok \/ one.path = <<>> THEN [ok |-> FALSE, resolved |-> <<>>]
            ELSE [ok |-> rest.ok, resolved |-> <<one.path>> \o rest.resolved]

\* build(), lines 197-205: the resolved paths, the empty ones dropped
RECURSIVE ResolveAllOn(_, _, _)
ResolveAllOn(g, model, keys) ==
    IF keys = <<>> THEN [ok |-> TRUE, resolved |-> <<>>]
    ELSE LET one == Resolve(g, model, Head(keys))
             rest == ResolveAllOn(g, model, Tail(keys))
         IN IF ~one.ok THEN [ok |-> FALSE, resolved |-> <<>>]
            ELSE [ok |-> rest.ok,
                  resolved |-> IF one.path = <<>> THEN rest.resolved
                               ELSE <<one.path>> \o rest.resolved]

\* the same over the graph of tests/models.py
ResolveAll(model, keys) == ResolveAllOn(TestSchema, model, keys)

\* build() up to the loop of _construct: resolve, reorder, plan the alignment
BeginWith(all, r) ==
    LET resolved == Reorder(all.resolved)
    IN IF ~all.ok
       THEN [sb |-> Raise(NewBuilder(r), "ValueError"), todo |-> <<>>]
       ELSE [sb |-> CheckZipNeeds(NewBuilder(r), r, resolved), todo |-> resolved]
Begin(r) == BeginWith(ResolveAll(r.model, OrderedLoads(r.loads)), r)
BeginOn(g, r) == BeginWith(ResolveAllOn(g, r.model, OrderedLoads(r.loads)), r)

\* the loop of _construct, lines 658-661
RECURSIVE FoldLoads(_, _, _)
FoldLoads(sb, r, todo) ==
    IF todo = <<>> \/ sb.raised # "" THEN sb
    ELSE FoldLoads(ConstructLoads(sb, r, Head(todo)), r, Tail(todo))

\* sqla_select(**params) as one function of the request
BuildAll(r) == LET b == Begin(r) IN FoldLoads(b.sb, r, b.todo)
BuildAllOn(g, r) == LET b == BeginOn(g, r) IN FoldLoads(b.sb, r, b.todo)

(***************************************************************************)
(* Executing the statement and loading the entities it returns             *)
(***************************************************************************)
JoinNames(q) == <<q.root>> \o [i \in 1..Len(q.joins) |-> q.joins[i].name]

\* two FROM items of one name
DuplicateAlias(q) ==
    \E i, j \in 1..Len(JoinNames(q)) : i # j /\ JoinNames(q)[i] = JoinNames(q)[j]

\* a lateral whose own table is also a table of the enclosing FROM list is
\* left without a FROM clause by auto-correlation
NoFromClause(q) ==
    \E i \in 1..Len(q.joins) :
        LET it == q.joins[i]
        IN /\ it.kind = "lateral"
           /\ ~it.sel.correlate_except
           /\ it.sel.from = it.sel.table
           /\ \/ q.root = it.sel.table
              \/ \E j \in 1..Len(q.joins) :
                    q.joins[j].kind = "table" /\ q.joins[j].name = it.sel.table

RefsOf(preds) == UNION {{preds[i].lhs, preds[i].rhs} : i \in 1..Len(preds)} \ {NoRef}

\* every column reference names a FROM item that precedes it, or its own
WellScoped(q) ==
    \A i \in 1..Len(q.joins) :
        LET it == q.joins[i]
            before == {JoinNames(q)[j] : j \in 1..i}
            own == {it.name, it.sel.from, it.sel.sec}
            refs == RefsOf(it.on) \cup RefsOf(it.sel.where) \cup RefsOf(it.sel.sec_on)
                        \cup ({it.sel.order} \ {NoRef})
        IN \A ref \in refs : ref.name \in before \cup own

RowsOf(db, table) == {db[table][i] : i \in 1..Len(db[table])}

\* the rows the relationship relates to the parent with this primary key
RelatedIds(db, rel, pid) ==
    LET parents == {p \in RowsOf(db, TableName[rel.parent]) : p.id = pid}
        targets == RowsOf(db, TableName[rel.target])
        linked(p, c) ==
            IF rel.secondary = ""
            THEN Col(p, rel.pcol) # NULL /\ Col(p, rel.pcol) = Col(c, rel.tcol)
            ELSE \E s \in RowsOf(db, rel.secondary) :
                    Col(s, rel.spcol) = Col(p, rel.pcol) /\ Col(s, rel.stcol) = Col(c, rel.tcol)
    IN {c.id : c \in {t \in targets : \E p \in parents : linked(p, t)}}

\* the column set an eager-loaded entity is read from
EntityAlias(e) == IF e.alias # "" THEN e.alias ELSE TableName[e.rel.target]

\* what one chain of loader options loads, from its element i on: triples
\* (path, parent id, child id). contains_eager reads the joined rows; the
\* other strategies fetch every related row of the parents loaded so far
RECURSIVE WalkLoad(_, _, _, _, _, _, _, _)
WalkLoad(load, i, prefetched, ents, parents, rows, db, criteria) ==
    IF i > Len(load) THEN [loaded |-> {}, unsupported |-> FALSE]
    ELSE
    LET e == load[i]
        path == [j \in 1..i |-> load[j].rel.key]
        table == TableName[e.rel.target]
        child(k) == Lookup(rows[k], Ref(EntityAlias(e), "id"))
        eager == {[path |-> path, parent |-> ents[k], child |-> child(k)] :
                    k \in {n \in 1..Len(rows) : ents[n] # NULL /\ child(n) # NULL}}
        after_eager == WalkLoad(load, i + 1, FALSE,
                                [k \in 1..Len(rows) |-> IF ents[k] = NULL THEN NULL ELSE child(k)],
                                {}, rows, db, criteria)
        allowed(cid) ==
            LET scope == (table :> CHOOSE c \in RowsOf(db, table) : c.id = cid)
            IN /\ AllHold(e.where, scope)
               /\ \A o \in 1..Len(criteria) :
                    (criteria[o].kind = "criteria" /\ criteria[o].cls = e.rel.target)
                        => AllHold(criteria[o].where, scope)
        ps == IF prefetched THEN parents
              ELSE {ents[k] : k \in 1..Len(rows)} \ {NULL}
        kids(p) == {c \in RelatedIds(db, e.rel, p) : allowed(c)}
        fetched == {[path |-> path, parent |-> t[1], child |-> t[2]] :
                        t \in {u \in ps \X UNION {kids(p) : p \in ps} : u[2] \in kids(u[1])}}
        after_fetch == WalkLoad(load, i + 1, TRUE, <<>>, UNION {kids(p) : p \in ps},
                                rows, db, criteria)
    IN IF e.strategy = "contains_eager"
       THEN IF prefetched THEN [loaded |-> {}, unsupported |-> TRUE]
            ELSE [loaded |-> eager \cup after_eager.loaded,
                  unsupported |-> after_eager.unsupported]
       ELSE [loaded |-> fetched \cup after_fetch.loaded,
             unsupported |-> after_fetch.unsupported]

\* session.execute(query).unique().scalars().all(), then reading the graph
Execute(sb, db) ==
    LET q == sb.query
        failed == DuplicateAlias(q) \/ NoFromClause(q)
        rows == EvalQuery(q, db)
        roots == [k \in 1..Len(rows) |-> Lookup(rows[k], Ref(q.root, "id"))]
        walks == {WalkLoad(sb.options[o].load, 1, FALSE, roots, {}, rows, db, sb.options) :
                    o \in {n \in 1..Len(sb.options) : sb.options[n].kind = "load"}}
    IN IF failed
       THEN [error |-> TRUE, rows |-> <<>>, loaded |-> {}, unsupported |-> FALSE]
       ELSE [error |-> FALSE, rows |-> rows,
             loaded |-> UNION {w.loaded : w \in walks},
             unsupported |-> ~WellScoped(q) \/ \E w \in walks : w.unsupported]

(***************************************************************************)
(* Requests and stored rows                                                *)
(***************************************************************************)
MaxPosts == 3         \* rows of posts
MaxComments == 2      \* rows of comments
MaxCategories == 3    \* rows of categories
MaxLimit == 2         \* the largest integer cap requested

UserIds == {1, 2}
RoleIds == {1, 2}
TagIds == {1, 2}
LinkedPostIds == {1, 2}

IdRows(ids) == [i \in 1..Cardinality(ids) |-> [id |-> i]]

PostTables ==
    {[i \in 1..MaxPosts |-> [id |-> i, author_id |-> f[i]]] : f \in [1..MaxPosts -> UserIds]}
CommentTables ==
    {[i \in 1..MaxComments |-> [id |-> i, post_id |-> f[i]]] :
        f \in [1..MaxComments -> LinkedPostIds]}

\* an association table: any set of links, stored in some order
RECURSIVE SetToSeq(_)
SetToSeq(S) == IF S = {} THEN <<>>
               ELSE LET x == CHOOSE y \in S : TRUE IN <<x>> \o SetToSeq(S \ {x})
UserRoleTables ==
    {SetToSeq({[user_id |-> l[1], role_id |-> l[2]] : l \in L}) : L \in SUBSET (UserIds \X RoleIds)}
PostTagTables ==
    {SetToSeq({[post_id |-> l[1], tag_id |-> l[2]] : l \in L}) : L \in SUBSET (LinkedPostIds \X TagIds)}

\* categories: 1 is a root, the others are roots or children of a lower id;
\* the rows are stored in any order
Orders(n) == {p \in [1..n -> 1..n] : \A i, j \in 1..n : p[i] = p[j] => i = j}
CategoryTables ==
    {[i \in 1..MaxCategories |-> [id |-> p[i], parent_id |-> f[p[i]]]] :
        p \in Orders(MaxCategories),
        f \in {g \in [1..MaxCategories -> 0..MaxCategories] : \A i \in 1..MaxCategories : g[i] < i /\ g[i] <= 1}}

\* the tables a request reads: its root and whatever its paths lead through
Touched(r) ==
    LET all == ResolveAll(r.model, OrderedLoads(r.loads)).resolved
        rels == UNION {{all[p][i] : i \in 1..Len(all[p])} : p \in 1..Len(all)}
    IN {TableName[r.model]} \cup {TableName[e.target] : e \in rels}
                            \cup ({e.secondary : e \in rels} \ {""})

Pick(r, table, choices) == IF table \in Touched(r) THEN choices ELSE {<<>>}

DatabasesFor(r) ==
    {[users |-> IdRows(UserIds), roles |-> IdRows(RoleIds), tags |-> IdRows(TagIds),
      posts |-> po, comments |-> co, user_roles |-> ur, post_tags |-> pt, categories |-> ca] :
        po \in Pick(r, "posts", PostTables),
        co \in Pick(r, "comments", CommentTables),
        ur \in Pick(r, "user_roles", UserRoleTables),
        pt \in Pick(r, "post_tags", PostTagTables),
        ca \in Pick(r, "categories", CategoryTables)}

Limits == {NoLimit} \cup 0..MaxLimit

Request(model, loads, limit, optimization, conditions, self_key, check_tables) ==
    [model |-> model, loads |-> loads, limit |-> limit, optimization |-> optimization,
     conditions |-> conditions, self_key |-> self_key, check_tables |-> check_tables,
     many_load |-> "subqueryload"]

(***************************************************************************)
(* sqla_select, step by step, and the execution of the statement           *)
(***************************************************************************)
NoOut == [error |-> FALSE, rows |-> <<>>, loaded |-> {}, unsupported |-> FALSE]

\* sqla_select up to the loop of _construct
SqlaSelect ==
    /\ bpc = "call"
    /\ builder' = Begin(request).sb
    /\ pending' = Begin(request).todo
    /\ bpc' = IF Begin(request).sb.raised # "" THEN "raised" ELSE "fold"
    /\ UNCHANGED <<request, store, outcome>>
    /\ UNCHANGED <<nodeVars, resolveVars, memoVars>>

\* one turn of the loop of _construct
ConstructNext ==
    /\ bpc = "fold"
    /\ pending # <<>>
    /\ builder' = ConstructLoads(builder, request, Head(pending))
    /\ pending' = Tail(pending)
    /\ bpc' = IF builder'.raised # "" THEN "raised" ELSE "fold"
    /\ UNCHANGED <<request, store, outcome>>
    /\ UNCHANGED <<nodeVars, resolveVars, memoVars>>

\* build() returns the statement with its options
Finish ==
    /\ bpc = "fold"
    /\ pending = <<>>
    /\ bpc' = "built"
    /\ UNCHANGED <<request, store, builder, pending, outcome>>
    /\ UNCHANGED <<nodeVars, resolveVars, memoVars>>

\* the caller executes the statement
ExecuteQuery ==
    /\ bpc = "built"
    /\ outcome' = Execute(builder, store)
    /\ bpc' = "done"
    /\ UNCHANGED <<request, store, builder, pending>>
    /\ UNCHANGED <<nodeVars, resolveVars, memoVars>>

BuildNext == SqlaSelect \/ ConstructNext \/ Finish \/ ExecuteQuery

K(a) == <<a>>
K2(a, b) == <<a, b>>
K3(a, b, c) == <<a, b, c>>

\* the requests executed against every stored data set
ExecShapes ==
    { <<"User", << K("posts") >> >>,
      <<"User", << K("roles") >> >>,
      <<"User", << K("posts"), K("roles") >> >>,
      <<"User", << K2("posts", "comments") >> >>,
      <<"User", << K2("posts", "comments"), K2("posts", "tags") >> >>,
      <<"Post", << K("comments"), K("tags") >> >>,
      <<"Post", << K("author") >> >>,
      <<"Comment", << K2("post", "author") >> >>,
      <<"Role", << K("users") >> >>,
      <<"Tag", << K2("posts", "comments"), K3("posts", "author", "posts") >> >>,
      <<"Tag", << K3("posts", "author", "posts"), K2("posts", "comments"), K2("posts", "tags") >> >>,
      <<"Category", << K("children") >> >>,
      <<"Category", << K("parent") >> >>,
      <<"Category", << K("children"), K("parent") >> >> }

ExecRequests ==
    {Request(s[1], s[2], limit, optimization, <<>>, FindSelfKey(s[1]), FALSE) :
        s \in ExecShapes, limit \in Limits, optimization \in BOOLEAN}

BuildIdle ==
    /\ request = Request("User", <<>>, NoLimit, TRUE, <<>>, "", FALSE)
    /\ store = [t \in {} |-> <<>>]
    /\ builder = NewBuilder(request)
    /\ pending = <<>>
    /\ bpc = "idle"
    /\ outcome = NoOut

ExecInit ==
    /\ request \in ExecRequests
    /\ store \in DatabasesFor(request)
    /\ builder = NewBuilder(request)
    /\ pending = <<>>
    /\ bpc = "call"
    /\ outcome = NoOut

(***************************************************************************)
(* Claims about the path resolver (SpecResolve)                            *)
(***************************************************************************)
AllEdges(g) == UNION {{g[t][i] : i \in 1..Len(g[t])} : t \in Types}

IsWalk(w) ==
    /\ Len(w) >= 1
    /\ w[1].parent = StartType
    /\ \A i \in 1..(Len(w) - 1) : w[i + 1].parent = w[i].target

\* the walks of n edges from the start type whose last edge has the key
WalksTo(g, n, key) == {w \in [1..n -> AllEdges(g)] : IsWalk(w) /\ w[n].key = key}

EdgeIndex(g, e) == CHOOSE i \in 1..Len(g[e.parent]) : g[e.parent][i] = e

\* v comes before w in the declared order of edges (v, w of one length)
DeclaredBefore(g, v, w) ==
    \E i \in 1..Len(v) :
        /\ \A j \in 1..(i - 1) : v[j] = w[j]
        /\ v[i].parent = w[i].parent
        /\ EdgeIndex(g, v[i]) < EdgeIndex(g, w[i])

NoDuplicates(s) == \A i, j \in 1..Len(s) : s[i] = s[j] => i = j

MaxWalk == Cardinality(Types)

\* the least n with a walk of n edges to the key, 0 if there is none
MinWalkLen(g, key) ==
    IF \E n \in 1..MaxWalk : WalksTo(g, n, key) # {}
    THEN CHOOSE n \in 1..MaxWalk :
            /\ WalksTo(g, n, key) # {}
            /\ \A m \in 1..(n - 1) : WalksTo(g, m, key) = {}
    ELSE 0

\* C7: for a bare key that some walk from the start type ends in, _bfs_search
\* returns a walk of minimal length to that key, the first such walk in the
\* declared order of edges, and expands no entity type twice.
C7_BfsShortest ==
    (rpc = "done" /\ Len(rkey) = 1) =>
        LET n == MinWalkLen(graph, rkey[1])
        IN /\ n # 0 =>
                /\ res.ok
                /\ res.path \in WalksTo(graph, n, rkey[1])
                /\ \A w \in WalksTo(graph, n, rkey[1]) :
                        w = res.path \/ DeclaredBefore(graph, res.path, w)
           /\ NoDuplicates(res.expanded)

\* a search that had to choose between two minimal walks of two edges or more
C7_Witness ==
    /\ rpc = "done"
    /\ Len(rkey) = 1
    /\ Len(res.path) >= 2
    /\ Cardinality(WalksTo(graph, Len(res.path), rkey[1])) >= 2

\* the walks of j edges that follow the first j segments of the key
Matching(g, parts, j) ==
    {w \in [1..j -> AllEdges(g)] : IsWalk(w) /\ \A i \in 1..j : w[i].key = parts[i]}

\* the type the first j segments lead to
ReachedBy(g, parts, j) ==
    IF j = 0 THEN StartType
    ELSE (CHOOSE w \in Matching(g, parts, j) : TRUE)[j].target

\* C8: a dotted key resolves iff every segment is the key of a direct edge of
\* the type reached so far; it then returns exactly those edges, and otherwise
\* the error names the first offending segment and the type it was looked up on.
C8_DottedStrict ==
    (rpc = "done" /\ Len(rkey) >= 2) =>
        LET k == Len(rkey)
        IN /\ res.ok <=> Matching(graph, rkey, k) # {}
           /\ res.ok => Matching(graph, rkey, k) = {res.path}
           /\ ~res.ok =>
                \E j \in 1..k :
                    /\ Matching(graph, rkey, j) = {}
                    /\ \A i \in 1..(j - 1) : Matching(graph, rkey, i) # {}
                    /\ res.segment = rkey[j]
                    /\ res.cls = ReachedBy(graph, rkey, j - 1)

\* a dotted key refused although its missing segment is reachable deeper
C8_Witness ==
    /\ rpc = "done"
    /\ Len(rkey) >= 2
    /\ ~res.ok
    /\ res.segment = rkey[2]
    /\ BfsSearch(graph, res.cls, res.segment).path # <<>>

C29_FailureLeavesNoTrace ==
    (last_call.op = "init_node" /\ last_call.arg # 0 /\ ~last_call.pre) =>
        /\ ~last_call.raised
        /\ node_property(NodeState) = last_call.arg

(***************************************************************************)
(* Requests with lookup misses                                             *)
(***************************************************************************)
\* the types reachable from a type along relationships, and the keys of
\* the relationships declared on them
RECURSIVE ReachableFrom(_, _)
ReachableFrom(S, n) ==
    IF n = 0 THEN S
    ELSE ReachableFrom(S \cup UNION {{TestSchema[c][i].target : i \in 1..Len(TestSchema[c])} :
                                        c \in S}, n - 1)
ReachableKeys(model) ==
    UNION {{TestSchema[c][i].key : i \in 1..Len(TestSchema[c])} :
                c \in ReachableFrom({model}, Cardinality(Classes))}

\* the keys of the relationships on the paths the builder resolves
ResolvedKeys(model, loads) ==
    LET all == ResolveAll(model, OrderedLoads(loads)).resolved
    IN UNION {{all[p][i].key : i \in 1..Len(all[p])} : p \in 1..Len(all)}

IsMiss(model, l) == Len(l) = 1 /\ l[1] \notin ReachableKeys(model)

\* a request without its misses: the bare keys no reachable relationship
\* has, and the filters for keys of no resolved relationship
Strip(r) ==
    LET kept == SelectSeq(r.loads, LAMBDA l : ~IsMiss(r.model, l))
        keys == ResolvedKeys(r.model, kept)
    IN [r EXCEPT !.loads = kept,
                 !.conditions = [k \in (DOMAIN r.conditions) \cap keys |-> r.conditions[k]]]
MissedLoads(r) == {i \in 1..Len(r.loads) : IsMiss(r.model, r.loads[i])}
MissedFilters(r) == (DOMAIN r.conditions) \ (DOMAIN Strip(r).conditions)

MaxFilters == 2    \* filters given with one request

BuildShapes ==
    { <<"User", << K("posts") >> >>,
      <<"User", << K("posts"), K("roles") >> >>,
      <<"User", << K("comments") >> >>,
      <<"User", << K2("posts", "comments"), K("roles") >> >>,
      <<"Post", << K("comments"), K("tags") >> >>,
      <<"Comment", << K("author") >> >>,
      <<"Category", << K("children"), K("parent") >> >> }

InsertAt(s, i, x) == SubSeq(s, 1, i) \o <<x>> \o SubSeq(s, i + 1, Len(s))

\* the loads of a shape, as they are or with one more bare key
LoadsWith(loads) ==
    {loads} \cup {InsertAt(loads, i, K(k)) :
                    i \in 0..Len(loads), k \in {"nosuch", "children", "users"}}

FilterKinds == {"where", "limit"}
FiltersFor(model, loads) ==
    UNION {[D -> FilterKinds] :
            D \in {E \in SUBSET (ResolvedKeys(model, loads) \cup {"nosuch", "tags"}) :
                        Cardinality(E) <= MaxFilters}}

BuildRequests ==
    UNION {{Request(s[1], loads, limit, optimization, conds, self_key, check_tables) :
                loads \in LoadsWith(s[2]),
                limit \in {NoLimit, 0, MaxLimit},
                optimization \in BOOLEAN,
                conds \in FiltersFor(s[1], s[2]),
                self_key \in {FindSelfKey(s[1])},
                check_tables \in BOOLEAN} : s \in BuildShapes}

BuildInit ==
    /\ request \in BuildRequests
    /\ store = [t \in {} |-> <<>>]
    /\ builder = NewBuilder(request)
    /\ pending = <<>>
    /\ bpc = "call"
    /\ outcome = NoOut

\* sqla_select up to the statement it returns
BuildOnlyNext == SqlaSelect \/ ConstructNext \/ Finish

(***************************************************************************)
(* Requests whose paths share prefixes                                     *)
(***************************************************************************)
MaxLoads == 3    \* paths given with one request

\* the paths a request is put together from: dotted ones, their prefixes,
\* and bare keys that breadth-first search resolves through a prefix
FoldPaths ==
    [c \in {"User", "Tag", "Category", "Post"} |->
        CASE c = "User" -> { K("posts"), K2("posts", "comments"), K("comments"), K("roles") }
          [] c = "Tag" -> { K("posts"), K2("posts", "author"), K3("posts", "author", "posts") }
          [] c = "Category" -> { K("children"), K("parent") }
          [] OTHER -> { K("comments"), K("tags"), K("author"), K2("author", "posts") }]

SeqsOver(S, n) == UNION {[1..m -> S] : m \in 1..n}

\* no filter, or one filter for a key of a resolved relationship
OneFilter(model, loads) ==
    UNION {[D -> FilterKinds] :
            D \in {E \in SUBSET ResolvedKeys(model, loads) : Cardinality(E) <= 1}}

\* the requests of one root type
FoldRequestsOf(c) ==
    UNION {{Request(c, loads, limit, optimization, conds, FindSelfKey(c), check_tables) :
                limit \in {NoLimit, MaxLimit},
                optimization \in BOOLEAN,
                conds \in OneFilter(c, loads),
                check_tables \in BOOLEAN} :
            loads \in SeqsOver(FoldPaths[c], MaxLoads)}
FoldRequests == UNION {FoldRequestsOf(c) : c \in DOMAIN FoldPaths}

FoldInit ==
    /\ request \in FoldRequests
    /\ store = [t \in {} |-> <<>>]
    /\ builder = NewBuilder(request)
    /\ pending = <<>>
    /\ bpc = "call"
    /\ outcome = NoOut

\* requests with one filter, executed against every stored data set
FilteredShapes ==
    { <<"Post", << K("author") >> >>,
      <<"Post", << K("comments") >> >>,
      <<"User", << K("posts") >> >>,
      <<"User", << K("roles") >> >>,
      <<"Comment", << K2("post", "author") >> >>,
      <<"Category", << K("children") >> >>,
      <<"Category", << K("parent") >> >>,
      <<"Category", << K("children"), K("parent") >> >> }

FilteredRequests ==
    UNION {{Request(s[1], s[2], limit, TRUE, conds, FindSelfKey(s[1]), FALSE) :
                limit \in {NoLimit, MaxLimit},
                conds \in OneFilter(s[1], s[2]) \ {<<>>}} : s \in FilteredShapes}

FilteredInit ==
    /\ request \in FilteredRequests
    /\ store \in DatabasesFor(request)
    /\ builder = NewBuilder(request)
    /\ pending = <<>>
    /\ bpc = "call"
    /\ outcome = NoOut

\* requests whose paths reach one type by several to-one relationships, or
\* by a to-one relationship after a to-many one
ToOnePaths ==
    [c \in {"PostTag", "Comment"} |->
        CASE c = "PostTag" -> { K("post"), K("tag"), K2("post", "author"), K2("tag", "posts"),
                                K3("post", "comments", "post") }
          [] OTHER -> { K("post"), K2("post", "author"), K3("post", "author", "posts"),
                        K3("post", "comments", "post") }]

ToOneRequests ==
    UNION {UNION {{Request(c, loads, limit, optimization, <<>>, FindSelfKey(c), check_tables) :
                        limit \in {NoLimit, MaxLimit},
                        optimization \in BOOLEAN,
                        check_tables \in BOOLEAN} :
                    loads \in SeqsOver(ToOnePaths[c], MaxLoads)} : c \in DOMAIN ToOnePaths}

ToOneInit ==
    /\ request \in ToOneRequests
    /\ store = [t \in {} |-> <<>>]
    /\ builder = NewBuilder(request)
    /\ pending = <<>>
    /\ bpc = "call"
    /\ outcome = NoOut

\* capped requests that reach one type twice by relationships of one key
NamedShapes ==
    { <<"PostTag", << K2("post", "post_tags"), K2("tag", "post_tags") >> >>,
      <<"Post", << K2("author", "posts"), K2("tags", "posts") >> >>,
      <<"Post", << K2("tags", "posts"), K2("author", "posts") >> >>,
      <<"Post", << K("post_tags"), K2("tags", "post_tags") >> >>,
      <<"User", << K("posts"), K3("roles", "users", "posts") >> >>,
      <<"Tag", << K("posts"), K3("posts", "author", "posts") >> >> }

NamedRequests ==
    UNION {{Request(s[1], s[2], limit, optimization, <<>>, FindSelfKey(s[1]), check_tables) :
                limit \in {1, MaxLimit},
                optimization \in BOOLEAN,
                check_tables \in BOOLEAN} : s \in NamedShapes}

NamedInit ==
    /\ request \in NamedRequests
    /\ store = [t \in {} |-> <<>>]
    /\ builder = NewBuilder(request)
    /\ pending = <<>>
    /\ bpc = "call"
    /\ outcome = NoOut

\* capped requests that load a relationship through post_tags and the direct
\* relationship onto post_tags, in both orders and at both depths
LinkedShapes ==
    { <<"Post", << K("tags"), K("post_tags") >> >>,
      <<"Post", << K("post_tags"), K("tags") >> >>,
      <<"User", << K2("posts", "tags"), K2("posts", "post_tags") >> >>,
      <<"User", << K2("posts", "post_tags"), K2("posts", "tags") >> >>,
      <<"Tag", << K("posts"), K("post_tags") >> >>,
      <<"Post", << K("comments"), K2("tags", "post_tags") >> >> }

LinkedRequests ==
    UNION {{Request(s[1], s[2], limit, optimization, conds, FindSelfKey(s[1]), check_tables) :
                limit \in {1, MaxLimit},
                optimization \in BOOLEAN,
                check_tables \in BOOLEAN,
                conds \in OneFilter(s[1], s[2])} : s \in LinkedShapes}

LinkedInit ==
    /\ request \in LinkedRequests
    /\ store = [t \in {} |-> <<>>]
    /\ builder = NewBuilder(request)
    /\ pending = <<>>
    /\ bpc = "call"
    /\ outcome = NoOut

\* requests with sibling to-many relationships, capped, with up to
\* MaxFilters filters
AlignedShapes ==
    { <<"User", << K("posts"), K("roles") >> >>,
      <<"User", << K2("posts", "comments"), K2("posts", "tags"), K("roles") >> >>,
      <<"Post", << K("comments"), K("tags") >> >>,
      <<"Post", << K("comments") >> >> }

AlignedRequests ==
    UNION {{Request(s[1], s[2], limit, optimization, conds, FindSelfKey(s[1]), FALSE) :
                limit \in {0, MaxLimit},
                optimization \in BOOLEAN,
                conds \in UNION {[D -> FilterKinds] :
                            D \in {E \in SUBSET ResolvedKeys(s[1], s[2]) :
                                        Cardinality(E) <= MaxFilters}}} : s \in AlignedShapes}

AlignedInit ==
    /\ request \in AlignedRequests
    /\ store = [t \in {} |-> <<>>]
    /\ builder = NewBuilder(request)
    /\ pending = <<>>
    /\ bpc = "call"
    /\ outcome = NoOut

(***************************************************************************)
(* The resolvers and the fold, one loop turn at a time                     *)
(***************************************************************************)
MaxRunEdges == 3      \* edges of a schema graph the loops are run over

NoFrame == [queue |-> <<>>, seen |-> {}, expanded |-> <<>>,
            parts |-> <<>>, current_cls |-> "", result |-> <<>>]

\* a variant of the test of line 816 that never finds a type seen
SeenBefore_never(current, seen) == FALSE
\* _bfs_search, line 816: if current in seen
SeenBefore(current, seen) == current \in seen

\* the resolver is called: _bfs_search for a bare key, _resolve_dotted_path
\* for a dotted one, each up to its loop
SearchStart(parts) ==
    /\ rpc = "declare"
    /\ rpc' = "search"
    /\ rkey' = parts
    /\ frame' = [NoFrame EXCEPT !.queue = <<[cls |-> StartType, path |-> <<>>]>>,
                                !.parts = parts, !.current_cls = StartType]
    /\ UNCHANGED <<graph, res>>
    /\ UNCHANGED <<nodeVars, buildVars, memoVars>>

\* one turn of the while loop of _bfs_search, or its return
BfsStep ==
    /\ rpc = "search"
    /\ Len(rkey) = 1
    /\ IF frame.queue = <<>>
       THEN /\ rpc' = "done"
            /\ res' = OkPath(<<>>) @@ [expanded |-> frame.expanded]
            /\ UNCHANGED frame
       ELSE LET current == Head(frame.queue).cls
                path == Head(frame.queue).path
                rels == NodeGet(graph, current)
                hit == FirstWithKey(rels, rkey[1])
            IN IF SeenBefore(current, frame.seen)
               THEN /\ frame' = [frame EXCEPT !.queue = Tail(@)]
                    /\ UNCHANGED <<rpc, res>>
               ELSE IF hit # 0
               THEN /\ rpc' = "done"
                    /\ frame' = [frame EXCEPT !.expanded = Append(@, current)]
                    /\ res' = OkPath(Append(path, rels[hit]))
                                @@ [expanded |-> Append(frame.expanded, current)]
               ELSE /\ frame' = [frame EXCEPT !.queue = Tail(@) \o Children(rels, path),
                                              !.seen = @ \cup {current},
                                              !.expanded = Append(@, current)]
                    /\ UNCHANGED <<rpc, res>>
    /\ UNCHANGED <<graph, rkey>>
    /\ UNCHANGED <<nodeVars, buildVars, memoVars>>

\* one turn of the for loop of _resolve_dotted_path, or its return
DottedStep ==
    /\ rpc = "search"
    /\ Len(rkey) > 1
    /\ IF frame.parts = <<>>
       THEN /\ rpc' = "done"
            /\ res' = OkPath(frame.result) @@ [expanded |-> <<>>]
            /\ UNCHANGED frame
       ELSE LET rels == NodeGet(graph, frame.current_cls)
                i == FirstWithKey(rels, Head(frame.parts))
            IN IF i = 0
               THEN /\ rpc' = "done"
                    /\ res' = BadSegment(Head(frame.parts), frame.current_cls)
                                @@ [expanded |-> <<>>]
                    /\ UNCHANGED frame
               ELSE /\ frame' = [frame EXCEPT !.parts = Tail(@),
                                              !.current_cls = rels[i].target,
                                              !.result = Append(@, rels[i])]
                    /\ UNCHANGED <<rpc, res>>
    /\ UNCHANGED <<graph, rkey>>
    /\ UNCHANGED <<nodeVars, buildVars, memoVars>>

\* the edge lists a type may declare, and the graphs of at most MaxRunEdges
\* edges: cycles, back-references and edges from a type to itself included
EdgeLists(t) ==
    {<<>>}
    \cup {<<[key |-> k, parent |-> t, target |-> u]>> : k \in Keys, u \in Types}
    \cup {<<[key |-> kl[1], parent |-> t, target |-> u],
             [key |-> kl[2], parent |-> t, target |-> v]>> :
            kl \in {x \in Keys \X Keys : x[1] # x[2]}, u \in Types, v \in Types}
RunGraphs ==
    {[t \in Types |-> CASE t = "A" -> e[1] [] t = "B" -> e[2] [] OTHER -> e[3]] :
        e \in {x \in EdgeLists("A") \X EdgeLists("B") \X EdgeLists("C") :
                    Len(x[1]) + Len(x[2]) + Len(x[3]) <= MaxRunEdges}}
RunKeys == {<<"k">>, <<"a", "k">>, <<"a", "b", "k">>}

\* either a resolver runs over some graph, or a build runs over the mapped
\* classes of tests/models.py
RunInit ==
    \/ /\ graph \in RunGraphs
       /\ rpc = "declare"
       /\ rkey = <<>>
       /\ res = OkPath(<<>>) @@ [expanded |-> <<>>]
       /\ frame = NoFrame
       /\ BuildIdle
    \/ /\ graph = TestSchema
       /\ rpc = "done"
       /\ rkey = <<>>
       /\ res = OkPath(<<>>) @@ [expanded |-> <<>>]
       /\ frame = NoFrame
       /\ FoldInit

RunNext ==
    \/ \E parts \in RunKeys : SearchStart(parts)
    \/ BfsStep
    \/ DottedStep
    \/ SqlaSelect
    \/ ConstructNext
    \/ Finish

(***************************************************************************)
(* sqla_select and the resolvers behind functools.lru_cache, as several    *)
(* concurrent callers use them                                             *)
(***************************************************************************)
NCallers == 2         \* concurrent callers
MaxCalls == 3         \* calls started, all callers together
MaxClears == 1        \* calls of sqla_cache_clear
MaxSize == 1          \* entries a cache holds before it evicts (maxsize)

Omitted == "<omitted>"
DeclarativeRoots == {"DeclarativeBase", "Base"}
CacheNames == {"bfs", "dotted", "select"}

\* frozendict(conditions): a dict, given as its items in insertion order,
\* becomes the mapping that __eq__ and __hash__ compare
Frozendict(items) ==
    [k \in {items[i][1] : i \in 1..Len(items)} |->
        items[CHOOSE i \in 1..Len(items) :
                /\ items[i][1] = k
                /\ \A j \in (i + 1)..Len(items) : items[j][1] # k][2]]

\* sqla_select, lines 1063-1068: the key of the final-query cache;
\* _find_self_key reads model.__table__, which a declarative base has not
Params(kw) ==
    IF kw.self_key = Omitted /\ kw.model \notin Classes
    THEN [raised |-> "AttributeError", params |-> <<>>]
    ELSE [raised |-> "",
          params |-> Request(kw.model, kw.loads, kw.limit, kw.optimization,
                             Frozendict(kw.conditions),
                             IF kw.self_key = Omitted THEN FindSelfKey(kw.model)
                             ELSE kw.self_key,
                             kw.check_tables)]

\* _select_with_relationships up to the loop of _construct
Construct(g, r) ==
    IF r.model \in DeclarativeRoots
    THEN [sb |-> [raised |-> "TypeError"], todo |-> <<>>]
    ELSE BeginOn(g, r)

\* the statement build() returns
Statement(sb) == [query |-> sb.query, options |-> sb.options]

\* ---- functools.lru_cache
Has(t, key) == \E i \in 1..Len(t) : t[i].key = key
At(t, key) == CHOOSE i \in 1..Len(t) : t[i].key = key
\* a hit moves the entry to the most recently used end
Hit(t, key) ==
    SubSeq(t, 1, At(t, key) - 1) \o SubSeq(t, At(t, key) + 1, Len(t)) \o <<t[At(t, key)]>>
Found(t, key) == t[At(t, key)]
\* a variant that stores what the call returned over an entry stored meanwhile
Put_replacing(t, e) == IF Len(t) >= MaxSize THEN Append(Tail(t), e) ELSE Append(t, e)
\* after the wrapped call: an entry stored meanwhile stays, a full cache
\* gives up its least recently used entry
Put(t, e) ==
    IF Has(t, e.key) THEN t
    ELSE IF Len(t) >= MaxSize THEN Append(Tail(t), e)
    ELSE Append(t, e)
Evicted(t, e) == IF ~Has(t, e.key) /\ Len(t) >= MaxSize THEN {t[1].key} ELSE {}

EraOf(er, name, key) == IF <<name, key>> \in DOMAIN er THEN er[<<name, key>>] ELSE 0
Bump(er, name, keys) ==
    [x \in DOMAIN er \cup {<<name, k>> : k \in keys} |->
        (IF x \in DOMAIN er THEN er[x] ELSE 0)
        + (IF x[1] = name /\ x[2] \in keys THEN 1 ELSE 0)]

Ret(op, args, key, obj, val, how, e, error) ==
    [op |-> op, args |-> args, key |-> key, obj |-> obj, val |-> val, how |-> how, era |-> e,
     error |-> error]

\* one memoized call that nothing interrupts, on the shared state
\* st = [caches, objs, era, rets]; an empty result is the one empty tuple
CachedCall(st, name, key, val) ==
    LET t == st.caches[name]
        obj == IF val = <<>> THEN 0 ELSE st.objs + 1
        e == [key |-> key, obj |-> obj, val |-> val]
    IN IF Has(t, key)
       THEN [st EXCEPT !.caches[name] = Hit(t, key),
                       !.rets = @ \cup {Ret(name, key, key, Found(t, key).obj, Found(t, key).val,
                                            "hit", EraOf(st.era, name, key), "")}]
       ELSE [caches |-> [st.caches EXCEPT ![name] = Put(t, e)],
             objs |-> IF val = <<>> THEN st.objs ELSE st.objs + 1,
             era |-> Bump(st.era, name, Evicted(t, e)),
             rets |-> st.rets \cup {Ret(name, key, key, obj, val, "stored",
                                        EraOf(st.era, name, key), "")}]

\* build(), lines 197-205: every key goes through its resolver's cache
RECURSIVE ResolveCached(_, _, _, _)
ResolveCached(st, g, model, keys) ==
    IF keys = <<>> THEN st
    ELSE LET one == Resolve(g, model, Head(keys))
             name == IF Len(Head(keys)) > 1 THEN "dotted" ELSE "bfs"
         IN IF ~one.ok THEN st
            ELSE ResolveCached(CachedCall(st, name, <<model, Head(keys)>>, one.path),
                               g, model, Tail(keys))

Shared == [caches |-> caches, objs |-> counts.objs, era |-> era, rets |-> rets]
Idle == [pc |-> "idle", args |-> <<>>, key |-> <<>>, sb |-> <<>>, todo |-> <<>>]

\* sqla_select(**kw) up to the loop of _construct, or to its return when the
\* final query is cached or the call raises
CallSqlaSelect(p, kw) ==
    /\ callers[p].pc = "idle"
    /\ counts.calls < MaxCalls
    /\ \E pr \in {Params(kw)} :
        IF pr.raised # ""
        THEN /\ rets' = rets \cup {Ret("select", kw, kw, 0, <<>>, "raised", 0, pr.raised)}
             /\ counts' = [counts EXCEPT !.calls = @ + 1]
             /\ UNCHANGED <<callers, caches, era>>
        ELSE \E key \in {pr.params}, t \in {caches["select"]} :
        IF Has(t, key)
        THEN /\ \E e \in {Found(t, key)} :
                    rets' = rets \cup {Ret("select", kw, key, e.obj, e.val,
                                           "hit", EraOf(era, "select", key), "")}
             /\ caches' = [caches EXCEPT !["select"] = Hit(t, key)]
             /\ counts' = [counts EXCEPT !.calls = @ + 1]
             /\ UNCHANGED <<callers, era>>
        ELSE \E b \in {Construct(graph, key)} :
        IF key.model \in DeclarativeRoots
        THEN /\ rets' = rets \cup {Ret("select", kw, key, 0, <<>>, "raised", 0, b.sb.raised)}
             /\ counts' = [counts EXCEPT !.calls = @ + 1]
             /\ UNCHANGED <<callers, caches, era>>
        ELSE \E shared \in {Shared}, loads \in {OrderedLoads(key.loads)} :
             \E st \in {ResolveCached(shared, graph, key.model, loads)} :
             /\ caches' = st.caches
             /\ era' = st.era
             /\ counts' = [counts EXCEPT !.calls = @ + 1, !.objs = st.objs]
             /\ IF b.sb.raised # ""
                THEN /\ rets' = st.rets \cup {Ret("select", kw, key, 0, <<>>, "raised", 0,
                                                  b.sb.raised)}
                     /\ UNCHANGED callers
                ELSE /\ rets' = st.rets
                     /\ callers' = [callers EXCEPT ![p] =
                             [pc |-> "fold", args |-> kw, key |-> key, sb |-> b.sb, todo |-> b.todo]]
    /\ UNCHANGED <<nodeVars, resolveVars, buildVars>>

\* a variant with one builder for all the builds
Session_shared(p) == 1
\* the caller whose builder a turn of its build writes: itself
Session(p) == p

\* one turn of the loop of _construct in a caller's build
CallerFold(p) ==
    /\ callers[p].pc = "fold"
    /\ callers[p].todo # <<>>
    /\ \E mine \in {callers[p].sb}, r \in {callers[p].key}, rels \in {Head(callers[p].todo)} :
       \E sb \in {ConstructLoads(mine, r, rels)} :
          IF sb.raised # ""
          THEN /\ rets' = rets \cup {Ret("select", callers[p].args, callers[p].key, 0, <<>>, "raised", 0,
                                         sb.raised)}
               /\ callers' = [callers EXCEPT ![p] = Idle]
          ELSE /\ callers' = [callers EXCEPT ![Session(p)].sb = sb, ![p].todo = Tail(@)]
               /\ UNCHANGED rets
    /\ UNCHANGED <<caches, counts, era>>
    /\ UNCHANGED <<nodeVars, resolveVars, buildVars>>

\* build() returns and lru_cache stores what it returned
CallerReturn(p) ==
    /\ callers[p].pc = "fold"
    /\ callers[p].todo = <<>>
    /\ \E key \in {callers[p].key}, t \in {caches["select"]} :
       \E e \in {[key |-> key, obj |-> counts.objs + 1, val |-> Statement(callers[p].sb)]} :
          /\ rets' = rets \cup {Ret("select", callers[p].args, key, e.obj, e.val,
                                    IF Has(t, key) THEN "lost" ELSE "stored",
                                    EraOf(era, "select", key), "")}
          /\ caches' = [caches EXCEPT !["select"] = Put(t, e)]
          /\ era' = Bump(era, "select", Evicted(t, e))
          /\ counts' = [counts EXCEPT !.objs = @ + 1]
    /\ callers' = [callers EXCEPT ![p] = Idle]
    /\ UNCHANGED <<nodeVars, resolveVars, buildVars>>

\* _bfs_search(start, end, node) called on its own: the cache is looked up
CallBfsSearch(p, start, end) ==
    /\ callers[p].pc = "idle"
    /\ counts.calls < MaxCalls
    /\ counts' = [counts EXCEPT !.calls = @ + 1]
    /\ \E key \in {<<start, end>>}, t \in {caches["bfs"]} :
          IF Has(t, key)
          THEN /\ \E e \in {Found(t, key)} :
                    rets' = rets \cup {Ret("bfs", key, key, e.obj, e.val,
                                           "hit", EraOf(era, "bfs", key), "")}
               /\ caches' = [caches EXCEPT !["bfs"] = Hit(t, key)]
               /\ UNCHANGED callers
          ELSE /\ callers' = [callers EXCEPT ![p] =
                       [pc |-> "search", args |-> key, key |-> key, sb |-> <<>>, todo |-> <<>>]]
               /\ UNCHANGED <<rets, caches>>
    /\ UNCHANGED era
    /\ UNCHANGED <<nodeVars, resolveVars, buildVars>>

\* the search returns and lru_cache stores what it returned
BfsSearchReturn(p) ==
    /\ callers[p].pc = "search"
    /\ \E key \in {callers[p].key}, t \in {caches["bfs"]} :
       \E val \in {Resolve(graph, key[1], key[2]).path} :
       \E obj \in {IF val = <<>> THEN 0 ELSE counts.objs + 1} :
       \E e \in {[key |-> key, obj |-> obj, val |-> val]} :
          /\ rets' = rets \cup {Ret("bfs", key, key, obj, val,
                                    IF Has(t, key) THEN "lost" ELSE "stored",
                                    EraOf(era, "bfs", key), "")}
          /\ caches' = [caches EXCEPT !["bfs"] = Put(t, e)]
          /\ era' = Bump(era, "bfs", Evicted(t, e))
          /\ counts' = [counts EXCEPT !.objs = obj]
    /\ callers' = [callers EXCEPT ![p] = Idle]
    /\ UNCHANGED <<nodeVars, resolveVars, buildVars>>

\* sqla_cache_clear()
SqlaCacheClear ==
    /\ counts.clears < MaxClears
    /\ \E n \in CacheNames : caches[n] # <<>>
    /\ counts' = [counts EXCEPT !.clears = @ + 1]
    /\ caches' = [n \in CacheNames |-> <<>>]
    /\ era' = [x \in DOMAIN era \cup UNION {{<<n, caches[n][i].key>> : i \in 1..Len(caches[n])} :
                                              n \in CacheNames} |->
                (IF x \in DOMAIN era THEN era[x] ELSE 0)
                + (IF \E i \in 1..Len(caches[x[1]]) : caches[x[1]][i].key = x[2] THEN 1 ELSE 0)]
    /\ UNCHANGED <<callers, rets>>
    /\ UNCHANGED <<nodeVars, resolveVars, buildVars>>

\* the keyword arguments the callers pass
Kw(model, loads, limit, conditions, self_key) ==
    [model |-> model, loads |-> loads, limit |-> limit, optimization |-> TRUE,
     conditions |-> conditions, self_key |-> self_key, check_tables |-> FALSE]
CallArgs ==
    { Kw("User", <<K("posts"), K("roles")>>, MaxLimit,
         << <<"posts", "where">>, <<"roles", "limit">> >>, Omitted),
      Kw("User", <<K("posts"), K("roles")>>, MaxLimit,
         << <<"roles", "limit">>, <<"posts", "where">> >>, ""),
      Kw("User", <<K("comments"), K2("posts", "comments")>>, NoLimit, <<>>, Omitted),
      Kw("Category", <<K("children"), K("parent")>>, MaxLimit, <<>>, "parent_id"),
      Kw("Category", <<K("children"), K("parent")>>, MaxLimit, <<>>, ""),
      Kw("Post", <<K("children")>>, NoLimit, <<>>, Omitted),
      Kw("Post", <<K3("category", "children", "children")>>, MaxLimit, <<>>, Omitted),
      Kw("Base", <<>>, MaxLimit, <<>>, ""),
      Kw("Base", <<>>, MaxLimit, <<>>, Omitted),
      Kw("DeclarativeBase", <<K("posts")>>, NoLimit, <<>>, "") }
SearchArgs == { <<"User", K("posts")>>, <<"User", K("nothing")>> }

\* the mapped classes: those of tests/models.py, or with the filed posts
CallsGraph ==
    /\ graph \in {TestSchema, FiledSchema}
    /\ rpc = "done"
    /\ rkey = <<>>
    /\ res = OkPath(<<>>) @@ [expanded |-> <<>>]
    /\ frame = [queue |-> <<>>, seen |-> {}, expanded |-> <<>>,
                parts |-> <<>>, current_cls |-> "", result |-> <<>>]

MemoIdle ==
    /\ callers = [p \in 1..NCallers |-> Idle]
    /\ caches = [n \in CacheNames |-> <<>>]
    /\ counts = [objs |-> 0, calls |-> 0, clears |-> 0]
    /\ era = <<>>
    /\ rets = {}

CallsNext ==
    \/ \E p \in 1..NCallers : \E kw \in CallArgs : CallSqlaSelect(p, kw)
    \/ \E p \in 1..NCallers : CallerFold(p)
    \/ \E p \in 1..NCallers : CallerReturn(p)
    \/ \E p \in 1..NCallers : \E a \in SearchArgs : CallBfsSearch(p, a[1], a[2])
    \/ \E p \in 1..NCallers : BfsSearchReturn(p)
    \/ SqlaCacheClear

(***************************************************************************)
(* The caches across changes of the graph                                  *)
(***************************************************************************)
\* the mappings the singleton is given: get_node of the two schemas
RegraphMaps == {1, 2}
GraphOf(m) == IF m = 2 THEN FiledSchema ELSE TestSchema

\* Node() returns the singleton: it exists and its mapping is not empty
NodeUsable == instance /\ NodeTruthy(inst_has, inst_node, cls_has)

\* build(), lines 197-205, with the node among the arguments of the
\* resolvers: a key found in its resolver's cache is not resolved again
RECURSIVE ResolveMemo(_, _, _, _, _)
ResolveMemo(st, g, n, model, keys) ==
    IF keys = <<>> \/ ~st.ok THEN st
    ELSE LET name == IF Len(Head(keys)) > 1 THEN "dotted" ELSE "bfs"
             key == <<n, model, Head(keys)>>
             one == IF Has(st.caches[name], key)
                    THEN [ok |-> TRUE, path |-> Found(st.caches[name], key).val]
                    ELSE Resolve(g, model, Head(keys))
             c == CachedCall(st, name, key, one.path)
         IN IF ~one.ok THEN [st EXCEPT !.ok = FALSE]
            ELSE ResolveMemo([caches |-> c.caches, objs |-> c.objs, era |-> c.era,
                              rets |-> c.rets, ok |-> TRUE,
                              resolved |-> IF one.path = <<>> THEN st.resolved
                                           ELSE Append(st.resolved, one.path)],
                             g, n, model, Tail(keys))

\* _bfs_search(start, end, Node()), memoized on its three arguments
MemoSearch(start, end) ==
    /\ NodeUsable
    /\ counts.calls < MaxCalls
    /\ \E g \in {GraphOf(inst_node)}, key \in {<<inst_id, start, end>>}, sh \in {Shared} :
       \E val \in {IF Has(sh.caches["bfs"], key) THEN <<>> ELSE Resolve(g, start, end).path} :
       \E st \in {CachedCall(sh, "bfs", key, val)} :
            /\ caches' = st.caches
            /\ era' = st.era
            /\ rets' = st.rets
            /\ counts' = [counts EXCEPT !.objs = st.objs, !.calls = @ + 1]
    /\ UNCHANGED callers
    /\ UNCHANGED <<nodeVars, resolveVars, buildVars>>

\* sqla_select(**kw): _LoadParams takes Node() as its node, and the final
\* query is memoized on the parameters, the node among them
MemoSelect(kw) ==
    /\ NodeUsable
    /\ counts.calls < MaxCalls
    /\ \E g \in {GraphOf(inst_node)}, r \in {Params(kw).params}, sh \in {Shared} :
       \E key \in {<<inst_id, r>>}, loads \in {OrderedLoads(r.loads)} :
          IF Has(sh.caches["select"], key)
          THEN \E st \in {CachedCall(sh, "select", key, <<>>)} :
                    /\ caches' = st.caches
                    /\ era' = st.era
                    /\ rets' = st.rets
                    /\ counts' = [counts EXCEPT !.calls = @ + 1]
          ELSE \E sh0 \in {[caches |-> sh.caches, objs |-> sh.objs, era |-> sh.era,
                            rets |-> sh.rets, ok |-> TRUE, resolved |-> <<>>]} :
               \E m \in {ResolveMemo(sh0, g, inst_id, r.model, loads)} :
               \E all \in {[ok |-> m.ok, resolved |-> m.resolved]} :
               \E b \in {BeginWith(all, r)} :
               \E todo \in {b.todo}, sb0 \in {b.sb} :
               \E sb \in {FoldLoads(sb0, r, todo)} :
               \E val \in {Statement(sb)} :
               \E st \in {CachedCall(m, "select", key, val)} :
                    IF sb.raised # ""
                    THEN /\ caches' = m.caches
                         /\ era' = m.era
                         /\ rets' = m.rets \cup {Ret("select", kw, key, 0, <<>>, "raised", 0,
                                                      sb.raised)}
                         /\ counts' = [counts EXCEPT !.objs = m.objs, !.calls = @ + 1]
                    ELSE /\ caches' = st.caches
                         /\ era' = st.era
                         /\ rets' = st.rets
                         /\ counts' = [counts EXCEPT !.objs = st.objs, !.calls = @ + 1]
    /\ UNCHANGED callers
    /\ UNCHANGED <<nodeVars, resolveVars, buildVars>>

\* what the callers resolve and build while the graph changes
RegraphSearches == { <<"Post", K("category")>>, <<"User", K("comments")>> }
RegraphArgs ==
    { Kw("Post", <<K("category")>>, MaxLimit, <<>>, Omitted),
      Kw("User", <<K("posts")>>, NoLimit, <<>>, Omitted) }

RegraphNext ==
    \/ \E m \in RegraphMaps : InitNode(m)
    \/ \E m \in RegraphMaps : SetNode(m)
    \/ Reset
    \/ \E a \in RegraphSearches : MemoSearch(a[1], a[2])
    \/ \E kw \in RegraphArgs : MemoSelect(kw)
    \/ SqlaCacheClear

(***************************************************************************)
(* What an executed sqla_select loaded                                     *)
(***************************************************************************)
\* the statement was built and executed, and the result is the ORM's
Executed == bpc = "done" /\ ~outcome.error /\ ~outcome.unsupported

Capped == request.limit # NoLimit

\* the relationship a loaded path ends with, and how it was loaded
EdgeOf(path) == builder.loaded[path][Len(path)].rel
StrategyOf(path) == builder.loaded[path][Len(path)].strategy

IsDirectMany(rel) == rel.uselist /\ rel.secondary = "" /\ rel.parent # rel.target
IsThroughMany(rel) == rel.uselist /\ rel.secondary # ""
IsSelfMany(rel) == rel.uselist /\ rel.parent = rel.target

\* the children loaded on a parent at a path, and the parents loaded there
ChildrenAt(loaded, path, p) == {t.child : t \in {u \in loaded : u.path = path /\ u.parent = p}}
ParentsAt(loaded, path) ==
    IF Len(path) = 1
    THEN {row.id : row \in RowsOf(store, TableName[request.model])}
    ELSE {t.child : t \in {u \in loaded : u.path = SubSeq(path, 1, Len(path) - 1)}}

\* the first k of a set of rows by primary key descending
TopK(ids, k) == {c \in ids : Cardinality({d \in ids : d > c}) < k}

\* C1: with an integer cap and no filter, every parent of a direct to-many
\* edge, at any depth, is loaded with exactly the first min(k, n) of its n
\* related rows by related primary key descending
C1_DirectCapExact ==
    (Executed /\ Capped /\ request.conditions = <<>>) =>
        \A path \in DOMAIN builder.loaded :
            IsDirectMany(EdgeOf(path)) =>
                \A p \in ParentsAt(outcome.loaded, path) :
                    ChildrenAt(outcome.loaded, path, p)
                        = TopK(RelatedIds(store, EdgeOf(path), p), request.limit)

\* C2: with an integer cap k, no parent of a many-to-many edge is loaded
\* with more than k related rows
C2_ThroughCapBounds ==
    (Executed /\ Capped) =>
        \A path \in DOMAIN builder.loaded :
            IsThroughMany(EdgeOf(path)) =>
                \A p \in ParentsAt(outcome.loaded, path) :
                    Cardinality(ChildrenAt(outcome.loaded, path, p)) <= request.limit

\* C3: with cap 0 every to-many relationship loads zero related rows for
\* every parent
C3_ZeroCapLoadsNothing ==
    (Executed /\ request.limit = 0) =>
        \A path \in DOMAIN builder.loaded :
            EdgeOf(path).uselist =>
                \A p \in ParentsAt(outcome.loaded, path) :
                    ChildrenAt(outcome.loaded, path, p) = {}

\* C4: with a cap k >= 1, the children kept for each parent by the first
\* self-referential to-many edge of the build are the first min(k, n) of
\* its n children by child primary key descending
C4_SelfRefCapExact ==
    (Executed /\ request.limit >= 1) =>
        \A path \in DOMAIN builder.loaded :
            (IsSelfMany(EdgeOf(path)) /\ StrategyOf(path) = "contains_eager") =>
                \A p \in ParentsAt(outcome.loaded, path) :
                    ChildrenAt(outcome.loaded, path, p)
                        = TopK(RelatedIds(store, EdgeOf(path), p), request.limit)

\* a to-many path folded at a depth that has a shared ranking series, and
\* another such path under the same parent path
Aligned(path) ==
    /\ (Len(path) - 1) \in DOMAIN builder.zip_levels
    /\ EdgeOf(path).uselist
    /\ EdgeOf(path).parent # EdgeOf(path).target
AlignedSibling(path) ==
    /\ Aligned(path)
    /\ \E other \in DOMAIN builder.loaded :
            /\ other # path
            /\ Aligned(other)
            /\ Len(other) = Len(path)
            /\ SubSeq(other, 1, Len(other) - 1) = SubSeq(path, 1, Len(path) - 1)

\* the parent a joined row carries for a path, and the i-th related row of
\* a parent by primary key descending
ParentIn(b, path) ==
    IF Len(path) = 1 THEN Lookup(b, Ref(builder.query.root, "id"))
    ELSE Lookup(b, Ref(EntityAlias(builder.loaded[path][Len(path) - 1]), "id"))
Ranked(ids, i) ==
    IF i <= Cardinality(ids) THEN CHOOSE c \in ids : Cardinality({d \in ids : d > c}) = i - 1
    ELSE NULL

\* C5: for aligned siblings of one parent, the joined row of rank i carries
\* the i-th row of each sibling (NULL past the sibling's count), and each
\* parent is loaded with exactly the first min(n, k) rows of each sibling
C5_AlignedByRank ==
    Executed =>
        \A path \in DOMAIN builder.loaded :
            AlignedSibling(path) =>
                LET rel == EdgeOf(path)
                    series == builder.zip_levels[Len(path) - 1]
                    alias == EntityAlias(builder.loaded[path][Len(path)])
                    kept(p) == TopK(RelatedIds(store, rel, p), request.limit)
                IN /\ \A n \in 1..Len(outcome.rows) :
                        LET b == outcome.rows[n]
                            p == ParentIn(b, path)
                        IN p # NULL =>
                            Lookup(b, Ref(alias, "id"))
                                = Ranked(kept(p), Lookup(b, Ref(series, "_rn")))
                   /\ \A p \in ParentsAt(outcome.loaded, path) :
                        ChildrenAt(outcome.loaded, path, p) = kept(p)

\* C6: the optimization flag does not change what is loaded: the same
\* request built with the flag inverted loads the same related rows for
\* every parent and every requested relationship
C6_OptimizationNeutral ==
    Executed =>
        LET other == Execute(BuildAll([request EXCEPT !.optimization = ~@]), store)
        IN (~other.error /\ ~other.unsupported) => other.loaded = outcome.loaded

\* C9: a bare key of no reachable relationship and a filter for a key of
\* no resolved relationship change nothing: the build raises only if the
\* request without them raises, never invokes such a filter, and ends with
\* the joins, laterals, ranking series and loader options of the request
\* without them
C9_MissesAreNoOps ==
    (bpc \in {"built", "raised"}) =>
        LET clean == BuildAll(Strip(request))
        IN /\ builder.raised = clean.raised
           /\ builder.invoked \cap MissedFilters(request) = {}
           /\ builder.query = clean.query
           /\ builder.zip_levels = clean.zip_levels
           /\ builder.options = clean.options

\* a built request that had a missed bare key between two loaded ones and a
\* missed filter beside an invoked one
C9_Witness ==
    /\ bpc = "built"
    /\ request.limit = MaxLimit
    /\ \E i \in MissedLoads(request) : 1 < i /\ i < Len(request.loads)
    /\ MissedFilters(request) # {}
    /\ builder.invoked # {}
    /\ builder.zip_levels # <<>>

(***************************************************************************)
(* Claims about the fold of the resolved paths                             *)
(***************************************************************************)
\* the paths of keys the builder resolved for the request, in fold order
KeysOf(rels) == [i \in 1..Len(rels) |-> rels[i].key]
ResolvedPaths(r) ==
    LET todo == Begin(r).todo IN [p \in 1..Len(todo) |-> KeysOf(todo[p])]
Prefixes(path) == {SubSeq(path, 1, i) : i \in 1..Len(path)}

\* the series joined by the alignment planner, and the joins the calls of
\* _load_relationship added, in the order of the calls
SeriesNames(sb) == {sb.zip_levels[d] : d \in DOMAIN sb.zip_levels}
RECURSIVE ItemsBuilt(_)
ItemsBuilt(built) ==
    IF built = <<>> THEN <<>> ELSE Head(built).items \o ItemsBuilt(Tail(built))

\* the request with every path left out that is folded after a path it is
\* equal to or a prefix of: each prefix is then requested once
RECURSIVE KeepAt(_, _, _)
KeepAt(s, keep, i) ==
    IF i > Len(s) THEN <<>>
    ELSE (IF i \in keep THEN <<s[i]>> ELSE <<>>) \o KeepAt(s, keep, i + 1)
Once(r) ==
    LET ord == OrderedLoads(r.loads)
        keys(i) == KeysOf(Resolve(TestSchema, r.model, ord[i]).path)
        keep == {i \in 1..Len(ord) : ~\E j \in 1..(i - 1) : keys(i) \in Prefixes(keys(j))}
    IN [r EXCEPT !.loads = KeepAt(ord, keep, 1)]

\* the paths that more than one requested path leads through
SharedPrefixes(r) ==
    {path \in UNION {Prefixes(ResolvedPaths(r)[p]) : p \in 1..Len(ResolvedPaths(r))} :
        Cardinality({p \in 1..Len(ResolvedPaths(r)) : path \in Prefixes(ResolvedPaths(r)[p])}) >= 2}

Returned == {a \in rets : a.how # "raised"}
SameCall(a, b) == a.op = b.op /\ a.key = b.key

\* C12 as stated: two calls of a memoized operation with equal arguments
\* return the identical object, at any two points of the process lifetime
C12_AlwaysIdentical ==
    \A a, b \in Returned : SameCall(a, b) => a.obj = b.obj

\* C12: two calls of a memoized operation with equal arguments (filter maps
\* compared as mappings, whatever their insertion order) return the
\* identical object when both were answered from or stored into the cache
\* and the entry was neither evicted nor cleared between them; whenever the
\* entry was evicted, cleared, or lost to a racing caller, the call returns a
\* new object that is structurally equal
C12_StableWhileCached ==
    /\ \A a, b \in Returned :
            SameCall(a, b) /\ a.how # "lost" /\ b.how # "lost" /\ a.era = b.era
                => a.obj = b.obj
    /\ \A a, b \in Returned : SameCall(a, b) => a.val = b.val
    /\ \A a, b \in Returned : a.op = "select" /\ b.op = "select" =>
            (a.key = b.key <=>
                /\ Params(a.args).params.conditions = Params(b.args).params.conditions
                /\ \A f \in DOMAIN a.key \ {"conditions"} : a.key[f] = b.key[f])
    /\ \A n \in CacheNames :
            /\ Len(caches[n]) <= MaxSize
            /\ \A i, j \in 1..Len(caches[n]) : caches[n][i].key = caches[n][j].key => i = j

C12_Witness ==
    /\ \E a, b \in Returned :
            /\ a.op = "select" /\ SameCall(a, b)
            /\ a.how = "stored" /\ b.how = "hit" /\ a.obj = b.obj
            /\ a.args.conditions # b.args.conditions
            /\ Len(a.args.conditions) = 2
    /\ \E a, b \in Returned :
            /\ a.op = "bfs" /\ SameCall(a, b)
            /\ a.how = "stored" /\ b.how = "hit" /\ a.obj = b.obj /\ a.obj # 0

\* C13: sqla_select with the declarative base as root (DeclarativeBase or a
\* direct subclass) raises TypeError before any path is resolved or any
\* query is constructed, whatever the other options are, the self-key
\* omitted included
C13_BaseRaisesTypeError ==
    \A a \in rets :
        a.op = "select" /\ a.args.model \in DeclarativeRoots =>
            /\ a.how = "raised" /\ a.error = "TypeError"
            /\ \A b \in rets : b.op # "select" => b.key[1] \notin DeclarativeRoots

\* the resolved paths of a request contain an edge from a type to itself
HasSelfEdge(g, r) ==
    LET all == ResolveAllOn(g, r.model, OrderedLoads(r.loads)).resolved
    IN \E p \in 1..Len(all) : \E i \in 1..Len(all[p]) : all[p][i].parent = all[p][i].target
Built(a) == a.op = "select" /\ "many_load" \in DOMAIN a.key

\* C14: with an empty self-key, every build whose resolved paths contain a
\* self-referential edge raises ValueError at build time and returns no
\* query; the failing call stores nothing in the final-query cache, and a
\* later call with a valid self-key builds the query it builds on its own
C14_EmptySelfKeyRaises ==
    /\ \A a \in rets :
            Built(a) /\ a.key.model \in Classes /\ a.key.self_key = "" /\ HasSelfEdge(graph, a.key)
                => a.how = "raised" /\ a.error = "ValueError"
    /\ \A i \in 1..Len(caches["select"]) :
            ~(caches["select"][i].key.self_key = "" /\ HasSelfEdge(graph, caches["select"][i].key))
    /\ \A a \in Returned :
            Built(a) /\ a.key.self_key # "" =>
                a.val = Statement(BuildAllOn(graph, a.key))

\* the cumulative paths of every edge of every resolved path, in fold order
RECURSIVE AllTurns(_)
AllTurns(paths) ==
    IF paths = <<>> THEN <<>>
    ELSE [i \in 1..Len(Head(paths)) |-> KeysOf(SubSeq(Head(paths), 1, i))]
         \o AllTurns(Tail(paths))
Folded == LET todo == Begin(request).todo
          IN SubSeq(todo, 1, Len(todo) - Len(pending))

LoopsBounded ==
    /\ NoDuplicates(frame.expanded)
    /\ Len(frame.expanded) <= Cardinality(Types)
    /\ rpc = "done" /\ rkey # <<>> => res = Resolve(graph, StartType, rkey)
    /\ bpc \in {"fold", "built"} => builder.turns = AllTurns(Folded)

\* C15: over every finite schema graph (cycles, back-references and edges
\* from a type to itself included) and every finite list of requested
\* paths, path resolution and the build terminate: the breadth-first
\* search expands each type at most once, and the fold visits each edge of
\* each resolved path once
C15_Terminates ==
    /\ []LoopsBounded
    /\ (rpc = "search") ~> (rpc = "done")
    /\ (bpc = "call") ~> (bpc \in {"built", "raised"})

C15_Witness ==
    /\ rpc = "done"
    /\ Len(rkey) = 1
    /\ res.path = <<>>
    /\ Len(frame.expanded) >= 2
    /\ \E t \in Types : \E i \in 1..Len(graph[t]) : graph[t][i].target = t
    /\ \E t \in Types \ {StartType} : \E i \in 1..Len(graph[t]) : graph[t][i].target = StartType

\* what a caller's build has folded so far, computed on its own
FoldedAlone(g, c) ==
    LET b == BeginOn(g, c.key)
    IN FoldLoads(b.sb, c.key, SubSeq(b.todo, 1, Len(b.todo) - Len(c.todo)))

\* C16: when several builds run concurrently over an initialized graph,
\* under every interleaving each build returns the query it returns when
\* run alone: a build folds into its own session state only, and a caller
\* of a memoized operation, racing or not, gets the value of its own
\* request, recomputed or cached
C16_BuildsIsolated ==
    /\ \A a \in Returned : Built(a) => a.val = Statement(BuildAllOn(graph, a.key))
    /\ \A a \in Returned : a.op # "select" => a.val = Resolve(graph, a.key[1], a.key[2]).path
    /\ \A p \in 1..NCallers :
            callers[p].pc = "fold" => callers[p].sb = FoldedAlone(graph, callers[p])
    /\ \A i \in 1..Len(caches["select"]) :
            caches["select"][i].val = Statement(BuildAllOn(graph, caches["select"][i].key))
    /\ \A n \in {"bfs", "dotted"} : \A i \in 1..Len(caches[n]) :
            caches[n][i].val = Resolve(graph, caches[n][i].key[1], caches[n][i].key[2]).path

C16_Witness ==
    \E a, b \in Returned :
        /\ Built(a) /\ SameCall(a, b)
        /\ a.how = "stored" /\ b.how = "lost" /\ a.obj # b.obj /\ a.val = b.val
        /\ a.val.query.joins # <<>>
        /\ \E p \in 1..NCallers :
                /\ callers[p].pc = "fold"
                /\ callers[p].key.model # a.key.model
                /\ callers[p].sb.turns # <<>>

(***************************************************************************)
(* Claims about where a caller's filter ends up                            *)
(***************************************************************************)
\* the predicate of a "where" filter is among preds
Filtering(preds) == \E i \in 1..Len(preds) : preds[i].op = "ne"

\* the loaded edges, by cumulative path, whose key has a "where" filter
FilteredEdges(sb, r) ==
    {cp \in DOMAIN sb.loaded :
        HasCondition(r.conditions, cp[Len(cp)]) /\ r.conditions[cp[Len(cp)]] = "where"}

\* the FROM items the fold joined for the edge at cp
JoinedFor(sb, cp) ==
    {i \in 1..Len(sb.query.joins) :
        \E b \in 1..Len(sb.built) :
            /\ sb.built[b].path = cp
            /\ \E k \in 1..Len(sb.built[b].items) : sb.built[b].items[k] = sb.query.joins[i].name}

EdgeAt(sb, cp) == sb.loaded[cp][Len(sb.loaded[cp])]

\* the filter inside the sub-selects of the edge's laterals
InSubSelect(sb, cp) ==
    Cardinality({i \in JoinedFor(sb, cp) :
        sb.query.joins[i].kind = "lateral" /\ Filtering(sb.query.joins[i].sel.where)})
\* the filter given to the prefetch of the edge's class by with_loader_criteria
InPrefetch(sb, cp) ==
    Cardinality({i \in 1..Len(sb.options) :
        /\ sb.options[i].kind = "criteria"
        /\ sb.options[i].cls = EdgeAt(sb, cp).rel.target
        /\ Filtering(sb.options[i].where)})
\* the filter on the edge's own loader option
InLoaderOption(sb, cp) == IF Filtering(EdgeAt(sb, cp).where) THEN 1 ELSE 0
\* the filter in the outer WHERE, or in the ON clause of a join of the edge
Elsewhere(sb, cp) ==
    (IF Filtering(sb.query.where) THEN 1 ELSE 0)
    + Cardinality({i \in JoinedFor(sb, cp) : Filtering(sb.query.joins[i].on)})

\* C17: for every loaded edge whose key has a caller-supplied filter, the
\* filter is attached at exactly one place, and that place is the edge's
\* capped sub-select, the query of its whole-set prefetch, or the loader
\* option of a second self-referential load: never nowhere, never twice,
\* also when a later request revisits the edge's path
C17_FilterAtOnePlace ==
    bpc = "built" =>
        \A cp \in FilteredEdges(builder, request) :
            /\ InSubSelect(builder, cp) + InPrefetch(builder, cp)
                    + InLoaderOption(builder, cp) = 1
            /\ Elsewhere(builder, cp) = 0

\* the request without its filters
Unfiltered(r) == [r EXCEPT !.conditions = <<>>]
\* the root rows a statement selects
RootIds(q, db) ==
    LET rows == EvalQuery(q, db)
    IN {Lookup(rows[k], Ref(q.root, "id")) : k \in 1..Len(rows)}

\* C18: a filter for a relationship key restricts only the related rows
\* loaded for that relationship: the outer query's WHERE (and LIMIT) is what
\* it is without the filters, and for every stored data set the statement
\* built with filters selects the same root rows as the one built without
C18_FiltersKeepRoots ==
    bpc = "done" =>
        LET plain == BuildAll(Unfiltered(request)).query
        IN /\ builder.query.where = plain.where
           /\ builder.query.limit = plain.limit
           /\ RootIds(builder.query, store) = RootIds(plain, store)

(***************************************************************************)
(* Claims about the order of the fold                                      *)
(***************************************************************************)
ProperPrefix(s, t) == Len(s) < Len(t) /\ SubSeq(t, 1, Len(s)) = s

\* C19: the resolved edge sequences are folded deepest-first: whenever the
\* sequence of one request is a proper prefix of the sequence of another,
\* the longer one is folded before the shorter one, whatever the order of
\* the requests and after the builder's own reordering; the sequence folded
\* next is therefore a proper prefix of none still waiting
C19_DeepestFirst ==
    bpc = "fold" =>
        \A i, j \in 1..Len(pending) :
            ProperPrefix(pending[i], pending[j]) => j < i

(***************************************************************************)
(* Claims about self-referential edges                                     *)
(***************************************************************************)
\* the loads of a build, in the order folded, whose edge leads from a type
\* to itself
SelfLoads(sb) ==
    {b \in 1..Len(sb.built) :
        EdgeAt(sb, sb.built[b].path).rel.parent = EdgeAt(sb, sb.built[b].path).rel.target}

\* of the self-referential edges of a build the first folded is loaded by
\* contains_eager over a join, and each later one by selectinload, joining
\* nothing, with its filter's predicate on its own loader option
SelfRefOnce(sb, r) ==
    \A b \in SelfLoads(sb) :
        LET e == EdgeAt(sb, sb.built[b].path)
            first == \A c \in SelfLoads(sb) : b <= c
            filtered == HasCondition(r.conditions, e.rel.key)
                            /\ r.conditions[e.rel.key] = "where"
        IN IF first
           THEN e.strategy = "contains_eager" /\ sb.built[b].items # <<>>
           ELSE /\ e.strategy = "selectinload"
                /\ sb.built[b].items = <<>>
                /\ filtered => Filtering(e.where)
                /\ (filtered /\ \A c \in SelfLoads(sb) : c < b =>
                        ~HasCondition(r.conditions, EdgeAt(sb, sb.built[c].path).rel.key))
                        => ~Filtering(sb.query.where)

\* C20: within one build at most one self-referential edge is loaded by the
\* alias join with contains_eager, the first one folded; every one folded
\* later is loaded by the separate-query prefetch, adds no join to the outer
\* query and carries its filter on its own loader option
C20_OneAliasJoin ==
    \A p \in 1..NCallers :
        callers[p].pc = "fold" /\ callers[p].todo = <<>> =>
            SelfRefOnce(callers[p].sb, callers[p].key)

\* the FROM items joined for a load are laterals numbered for a shared
\* ranking sequence, or joined on its rank
RankJoined(sb, b) ==
    \E i \in JoinedFor(sb, sb.built[b].path) :
        \/ sb.query.joins[i].kind = "lateral" /\ sb.query.joins[i].sel.rn
        \/ \E k \in 1..Len(sb.query.joins[i].on) : sb.query.joins[i].on[k].lhs.col = "_sqla_rn"

\* C21: every edge from a type to itself, wherever it occurs in a resolved
\* path and whatever the root type is, is loaded by the self-referential
\* mechanism, so a build that loads one has a self-key, and the edge is
\* never joined to a shared ranking sequence
C21_SelfEdgesSelfLoaded ==
    \A p \in 1..NCallers :
        callers[p].pc = "fold" /\ callers[p].todo = <<>> =>
            \A b \in SelfLoads(callers[p].sb) :
                /\ callers[p].key.self_key # ""
                /\ EdgeAt(callers[p].sb, callers[p].sb.built[b].path).strategy
                        \in {"contains_eager", "selectinload"}
                /\ ~RankJoined(callers[p].sb, b)

(***************************************************************************)
(* Claims about the shared ranking sequences                               *)
(***************************************************************************)
\* the hops of the resolved paths of a request: edge, depth, cumulative path
HopsOf(r) ==
    LET all == ResolveAll(r.model, OrderedLoads(r.loads)).resolved
    IN UNION {{[rel |-> all[p][i], depth |-> i - 1, cp |-> [j \in 1..i |-> all[p][j].key]] :
                    i \in 1..Len(all[p])} : p \in 1..Len(all)}

\* the depths with two distinct to-many edges, not from a type to itself,
\* under the same parent path
SiblingDepths(r) ==
    {d \in {h.depth : h \in HopsOf(r)} :
        \E g, h \in HopsOf(r) :
            /\ g.depth = d /\ h.depth = d /\ g.cp # h.cp
            /\ SubSeq(g.cp, 1, d) = SubSeq(h.cp, 1, d)
            /\ g.rel.uselist /\ g.rel.parent # g.rel.target
            /\ h.rel.uselist /\ h.rel.parent # h.rel.target}

SeriesJoined(sb) == {i \in 1..Len(sb.query.joins) : sb.query.joins[i].kind = "series"}

\* C22: a shared ranking sequence exists for depth d exactly when a cap is
\* set, the optimization is on and two distinct sibling to-many edges, not
\* self-referential, are requested at depth d; each is joined into the outer
\* query once, under a name of its own
C22_SeriesIffSiblings ==
    bpc \in {"fold", "built"} =>
        /\ DOMAIN builder.zip_levels =
                IF request.limit # NoLimit /\ request.optimization
                THEN SiblingDepths(request) ELSE {}
        /\ \A d \in DOMAIN builder.zip_levels :
                Cardinality({i \in SeriesJoined(builder) :
                    builder.query.joins[i].name = builder.zip_levels[d]}) = 1
        /\ \A d, e \in DOMAIN builder.zip_levels :
                builder.zip_levels[d] = builder.zip_levels[e] => d = e
        /\ Cardinality(SeriesJoined(builder)) = Cardinality(DOMAIN builder.zip_levels)

\* the cap of a relationship's virtual table as its filter leaves it
EffectiveCap(r, rel) ==
    IF HasCondition(r.conditions, rel.key) /\ r.conditions[rel.key] = "limit"
    THEN FilterLimit ELSE r.limit

\* the to-many hops at the depths that have a ranking sequence
AlignedHops(sb, r) == {h \in HopsOf(r) : h.rel.uselist /\ h.depth \in DOMAIN sb.zip_levels}

\* the laterals joined on the rank of the sequence called name
RankedOn(sb, name) ==
    {i \in 1..Len(sb.query.joins) :
        /\ sb.query.joins[i].kind = "lateral"
        /\ \E k \in 1..Len(sb.query.joins[i].on) : sb.query.joins[i].on[k].rhs.name = name}

Integers1To(m) == [k \in 1..m |-> [_rn |-> k]]

LateralsOf(sb, h) ==
    {j \in 1..Len(sb.query.joins) :
        /\ sb.query.joins[j].kind = "lateral"
        /\ sb.query.joins[j].name = LateralName(h.rel, FALSE)}

\* C24: a filter that sets its own row cap determines the cap of the
\* relationship's virtual table in every capped strategy (the ON TRUE
\* lateral, the aligned direct to-many, the aligned association-mediated
\* to-many), so the cap the planner probes is the cap the table uses
C24_FilterCapUsed ==
    bpc = "built" =>
        \A h \in HopsOf(request) :
            h.rel.uselist /\ HasCondition(request.conditions, h.rel.key) =>
                \A j \in LateralsOf(builder, h) :
                    builder.query.joins[j].sel.limit =
                        ExtractLimit(CappedSelect(request, h.rel), request.limit)

(***************************************************************************)
(* Claims about association tables                                         *)
(***************************************************************************)
\* the association tables that the request loads a relationship through and
\* also loads, as the target of a direct to-many relationship
LoadedBothWays(r) ==
    {h.rel.secondary : h \in {x \in HopsOf(r) : x.rel.secondary # ""}} \cap
    {TableName[h.rel.target] : h \in {x \in HopsOf(r) : x.rel.secondary = "" /\ x.rel.uselist}}

RawJoins(sb, t) ==
    {i \in 1..Len(sb.query.joins) :
        sb.query.joins[i].kind = "table" /\ sb.query.joins[i].table = t}

\* C25: when one capped build loads a relationship through an association
\* table and a direct to-many relationship onto that table, the table
\* enters the outer query only through a virtual table and is never
\* outer-joined as a raw table, whatever the order of the two paths, their
\* depth and the optimization flag
C25_NoRawAssociationJoin ==
    bpc = "built" /\ request.limit # NoLimit =>
        \A t \in LoadedBothWays(request) :
            /\ RawJoins(builder, t) = {}
            /\ \E i \in 1..Len(builder.query.joins) :
                    builder.query.joins[i].kind = "lateral" /\ builder.query.joins[i].table = t

(***************************************************************************)
(* Claims about to-one edges                                               *)
(***************************************************************************)
\* the relationship loaded by the b-th call of _load_relationship
BuiltRel(sb, b) == EdgeAt(sb, sb.built[b].path).rel
BuiltStrategy(sb, b) == EdgeAt(sb, sb.built[b].path).strategy

\* the calls for to-one relationships between two different types
ToOneBuilt(sb) ==
    {b \in 1..Len(sb.built) :
        ~BuiltRel(sb, b).uselist /\ BuiltRel(sb, b).parent # BuiltRel(sb, b).target}

\* the target type of the b-th call is the root type or the target of an
\* earlier call
AppearedBefore(sb, r, b) ==
    \/ BuiltRel(sb, b).target = r.model
    \/ \E a \in 1..(b - 1) : BuiltRel(sb, a).target = BuiltRel(sb, b).target

CappedBuilt(sb) ==
    {b \in 1..Len(sb.built) :
        /\ BuiltRel(sb, b).uselist
        /\ \E i \in JoinedFor(sb, sb.built[b].path) : sb.query.joins[i].kind = "lateral"}

\* the names under which the table t is in the query
StandIns(sb, t) ==
    (IF sb.query.root = t THEN {t} ELSE {}) \cup
    {sb.query.joins[i].name : i \in {j \in 1..Len(sb.query.joins) : sb.query.joins[j].table = t}}

\* the stand-in of the parent of the edge at path: the root table, or what
\* the call for the parent path joined for the parent's table
ParentStandIns(sb, path) ==
    IF Len(path) = 1 THEN {sb.query.root}
    ELSE {sb.query.joins[i].name :
            i \in {j \in JoinedFor(sb, SubSeq(path, 1, Len(path) - 1)) :
                    sb.query.joins[j].table = TableName[EdgeAt(sb, path).rel.parent]}}

\* the names the predicates of a FROM item refer to outside the item: those
\* of its ON clause and of its sub-select, without the sub-select's own FROM
NamesIn(preds) ==
    UNION {{preds[k].lhs.name, preds[k].rhs.name} : k \in 1..Len(preds)}
ReferredBy(item) ==
    (NamesIn(item.on) \cup NamesIn(item.sel.where)) \ {item.name, item.sel.from, item.sel.sec}

\* C27: the join predicate of every capped to-many edge is correlated to the
\* stand-in of its own parent, the root table for a depth-0 edge and otherwise
\* the virtual table created for the edge's own parent path, also when the
\* parent's table has a second virtual table in the build and when paths
\* sharing a prefix are folded non-consecutively
C27_CorrelatedToOwnParent ==
    bpc \in {"fold", "built"} =>
        \A b \in CappedBuilt(builder) :
            LET path == builder.built[b].path
                parent == TableName[BuiltRel(builder, b).parent]
            IN ParentStandIns(builder, path) # {} =>
                \A i \in JoinedFor(builder, path) :
                    (ReferredBy(builder.query.joins[i]) \cap StandIns(builder, parent))
                        \subseteq ParentStandIns(builder, path)

Laterals(sb) == {i \in 1..Len(sb.query.joins) : sb.query.joins[i].kind = "lateral"}

\* C28: no two virtual tables of one built query share a name: the naming
\* rule (the target table's name, with '_' and the relationship key when
\* the target type was already seen, and '_alias' on a detected collision)
\* gives every capped edge of a build a name of its own
C28_LateralNamesDistinct ==
    bpc \in {"fold", "built"} =>
        \A i, j \in Laterals(builder) :
            builder.query.joins[i].name = builder.query.joins[j].name => i = j

(***************************************************************************)
(* Claims about the caches and the graph                                   *)
(***************************************************************************)
\* what the call that returned a computes afresh on the graph g
FreshOn(g, a) ==
    IF a.op = "select" THEN Statement(BuildAllOn(g, a.key[2]))
    ELSE Resolve(g, a.key[2], a.key[3]).path

\* C30: memoized results never outlive the graph they were computed from:
\* after set_node on the singleton, or Node.reset followed by init_node
\* with another mapping, resolving (start type, key) and building a query
\* return what a fresh computation on the current graph returns
C30_NeverStale ==
    [][\A a \in rets' \ rets :
            a.how # "raised" => a.val = FreshOn(GraphOf(inst_node), a)]_vars

(***************************************************************************)
(* Specifications                                                          *)
(***************************************************************************)
SpecNodeInit == NodeInit /\ ResolveInit /\ BuildIdle /\ MemoIdle
SpecNodeNext == NodeNext
SpecNode == SpecNodeInit /\ [][SpecNodeNext]_vars

SpecResolveInit == NodeInit /\ ResolveInit /\ BuildIdle /\ MemoIdle
SpecResolveNext == ResolveNext
SpecResolve == SpecResolveInit /\ [][SpecResolveNext]_vars

SpecExecInit == NodeInit /\ ResolveInit /\ ExecInit /\ MemoIdle
SpecExecNext == BuildNext
SpecExec == SpecExecInit /\ [][SpecExecNext]_vars

SpecBuildInit == NodeInit /\ ResolveInit /\ BuildInit /\ MemoIdle
SpecBuildNext == BuildOnlyNext
SpecBuild == SpecBuildInit /\ [][SpecBuildNext]_vars

SpecFoldInit == NodeInit /\ ResolveInit /\ FoldInit /\ MemoIdle
SpecFoldNext == BuildOnlyNext
SpecFold == SpecFoldInit /\ [][SpecFoldNext]_vars

SpecFilteredInit == NodeInit /\ ResolveInit /\ FilteredInit /\ MemoIdle
SpecFilteredNext == BuildNext
SpecFiltered == SpecFilteredInit /\ [][SpecFilteredNext]_vars

SpecAlignedInit == NodeInit /\ ResolveInit /\ AlignedInit /\ MemoIdle
SpecAlignedNext == BuildOnlyNext
SpecAligned == SpecAlignedInit /\ [][SpecAlignedNext]_vars

SpecLinkedInit == NodeInit /\ ResolveInit /\ LinkedInit /\ MemoIdle
SpecLinkedNext == BuildOnlyNext
SpecLinked == SpecLinkedInit /\ [][SpecLinkedNext]_vars

SpecToOneInit == NodeInit /\ ResolveInit /\ ToOneInit /\ MemoIdle
SpecToOneNext == BuildOnlyNext
SpecToOne == SpecToOneInit /\ [][SpecToOneNext]_vars

SpecNamedInit == NodeInit /\ ResolveInit /\ NamedInit /\ MemoIdle
SpecNamedNext == BuildOnlyNext
SpecNamed == SpecNamedInit /\ [][SpecNamedNext]_vars

SpecRegraphInit == NodeReady /\ ResolveInit /\ BuildIdle /\ MemoIdle
SpecRegraphNext == RegraphNext
SpecRegraph == SpecRegraphInit /\ [][SpecRegraphNext]_vars

SpecCallsInit == NodeReady /\ CallsGraph /\ BuildIdle /\ MemoIdle
SpecCallsNext == CallsNext
SpecCalls == SpecCallsInit /\ [][SpecCallsNext]_vars

\* a call that has started runs on: every loop takes its next turn.
\* BuildProceeds is what a step of SqlaSelect, ConstructNext or Finish does
\* to the position of the build, and is enabled exactly when one of them is
BuildProceeds ==
    \/ bpc = "call" /\ bpc' \in {"fold", "raised"} /\ pending' = pending
    \/ bpc = "fold" /\ pending # <<>> /\ pending' = Tail(pending) /\ bpc' \in {"fold", "raised"}
    \/ bpc = "fold" /\ pending = <<>> /\ bpc' = "built" /\ pending' = pending
SpecRunInit == NodeReady /\ RunInit /\ MemoIdle
SpecRunNext == RunNext
SpecRun ==
    /\ SpecRunInit /\ [][SpecRunNext]_vars
    /\ WF_vars(BfsStep) /\ WF_vars(DottedStep)
    /\ WF_<<bpc, pending>>(BuildProceeds)
====
